---- MODULE Spec2Model ----
(***************************************************************************)
(* A model of the Portals viewer: the PGA transform algebra                *)
(* (crates/math), the plane / portal model (crates/app/src/plane.rs), the  *)
(* camera (crates/app/src/camera.rs) and the frame handler App::update     *)
(* (crates/app/src/main.rs).                                               *)
(*                                                                         *)
(* Numbers.  f32 values are modelled by exact integers:                    *)
(*   - a length (position, width, distance) is an integer number of        *)
(*     1/One world units;                                                  *)
(*   - the coefficients s, e12, e13, e23 of a rotor are plain integers;    *)
(*   - the coefficients e01, e02, e03, e0123 of a Transform are lengths    *)
(*     counted in HALF units (1/(2*One)), so that `offset.x * 0.5` is      *)
(*     exact;                                                              *)
(*   - a direction (a normalised vector) is counted in 1/DirOne;           *)
(*   - a time is counted in 1/One seconds;                                 *)
(*   - an angle is an integer number of half turns (k stands for k*PI).    *)
(* Vec<T> indices are 0-based as in the source; a TLA+ sequence holds the  *)
(* element of index i at position i+1.  Option<T> is a sequence of length  *)
(* at most one: None is << >> and Some(v) is <<v>>.                        *)
(***************************************************************************)
EXTENDS Integers, Sequences, FiniteSets, TLC

One == 4 * 10000
DirOne == 10 * 100

None == << >>
Some(v) == <<v>>
IsSome(o) == Len(o) = 1
Unwrap(o) == o[1]

Abs(n) == IF n < 0 THEN -n ELSE n

\* f32 division, truncated to the integer grid
Div(a, b) ==
    IF (a >= 0) = (b > 0) THEN Abs(a) \div Abs(b) ELSE -(Abs(a) \div Abs(b))

\* len * dir / DirOne without leaving the 32-bit range
MulDir(len, dir) ==
    LET q == Div(len, DirOne)
        r == len - q * DirOne
    IN  q * dir + Div(r * dir, DirOne)

\* A coefficient counted in half units, read as a length
FromHalf(n) == Div(n, 2)

RECURSIVE SqrtSearch(_, _, _)
SqrtSearch(n, lo, hi) ==
    IF hi - lo <= 1 THEN lo
    ELSE LET mid == (lo + hi) \div 2
         IN  IF mid <= n \div mid THEN SqrtSearch(n, mid, hi) ELSE SqrtSearch(n, lo, mid)

\* f32::sqrt on the integer grid (exact on perfect squares)
Sqrt(n) == IF n <= 0 THEN 0 ELSE SqrtSearch(n, 0, n + 1)

\* f32::signum: 1.0 for +0.0 and positive numbers, -1.0 for negative numbers
Signum(n) == IF n >= 0 THEN 1 ELSE -1

(***************************************************************************)
(* crates/math/src/vector3.rs                                              *)
(***************************************************************************)
Vec(x, y, z) == [x |-> x, y |-> y, z |-> z]

ZERO == Vec(0, 0, 0)

VAdd(u, v) == Vec(u.x + v.x, u.y + v.y, u.z + v.z)

VSub(u, v) == Vec(u.x - v.x, u.y - v.y, u.z - v.z)

VScale(v, k) == Vec(v.x * k, v.y * k, v.z * k)

dot(u, v) == u.x * v.x + u.y * v.y + u.z * v.z

sqr_magnitude(v) == dot(v, v)

\* the largest coefficient whose squares sum within the 32-bit range
SafeCoefficient == 2 * 10000

\* 1 when sqr_magnitude(v) is in range, else a divisor that brings v in range
Rescale(v) ==
    LET m == Abs(v.x) + Abs(v.y) + Abs(v.z)
    IN  IF m <= SafeCoefficient THEN 1 ELSE m \div SafeCoefficient + 1

\* sqr_magnitude().sqrt(); sqrt(c * c) is |c| for a vector along one axis, and a
\* vector out of the 32-bit range of sqr_magnitude is measured on a coarser grid
magnitude(v) ==
    IF v.x = 0 /\ v.y = 0 THEN Abs(v.z)
    ELSE IF v.x = 0 /\ v.z = 0 THEN Abs(v.y)
    ELSE IF v.y = 0 /\ v.z = 0 THEN Abs(v.x)
    ELSE LET k == Rescale(v)
         IN  k * Sqrt(sqr_magnitude(Vec(Div(v.x, k), Div(v.y, k), Div(v.z, k))))

\* Vector3::normalised of a vector of lengths; the result is a direction
normalised(v) ==
    LET m == magnitude(v)
    IN  IF m * 10000 > One
        THEN Vec(Div(v.x * DirOne, m), Div(v.y * DirOne, m), Div(v.z * DirOne, m))
        ELSE ZERO

\* Vector3::normalised of a dimensionless vector (the key axes of the camera)
normalised_axes(v) ==
    LET m == Sqrt(sqr_magnitude(v) * DirOne * DirOne)
    IN  IF m * 10000 > DirOne
        THEN Vec(Div(v.x * DirOne * DirOne, m), Div(v.y * DirOne * DirOne, m),
                 Div(v.z * DirOne * DirOne, m))
        ELSE ZERO

(***************************************************************************)
(* crates/math/src/rotor.rs                                                *)
(***************************************************************************)
Rotor(s, e12, e13, e23) == [s |-> s, e12 |-> e12, e13 |-> e13, e23 |-> e23]

ROTOR_IDENTITY == Rotor(1, 0, 0, 0)

\* (angle * 0.5).sin_cos() for an angle of k half turns
SinHalf(k) == LET r == k % 4 IN IF r = 1 THEN 1 ELSE IF r = 3 THEN -1 ELSE 0

CosHalf(k) == LET r == k % 4 IN IF r = 0 THEN 1 ELSE IF r = 2 THEN -1 ELSE 0

rotation_xy(angle) == Rotor(CosHalf(angle), SinHalf(angle), 0, 0)

rotation_xz(angle) == Rotor(CosHalf(angle), 0, SinHalf(angle), 0)

rotation_yz(angle) == Rotor(CosHalf(angle), 0, 0, SinHalf(angle))

\* a faulty variant of Rotor::after: one sign of the e12 coefficient is wrong
RotorAfterSign(self, after) ==
    Rotor(self.s * after.s - self.e12 * after.e12 - self.e13 * after.e13
              - self.e23 * after.e23,
          self.s * after.e12 + after.s * self.e12 - after.e13 * self.e23
              - self.e13 * after.e23,
          self.s * after.e13 + after.s * self.e13 + self.e12 * after.e23
              - after.e12 * self.e23,
          self.s * after.e23 + after.s * self.e23 + after.e12 * self.e13
              - self.e12 * after.e13)

RotorAfter(self, after) ==
    LET a1 == self.s   b1 == self.e12   c1 == self.e13   d1 == self.e23
        a2 == after.s  b2 == after.e12  c2 == after.e13  d2 == after.e23
    IN  Rotor(a1 * a2 - b1 * b2 - c1 * c2 - d1 * d2,
              a1 * b2 + a2 * b1 + c2 * d1 - c1 * d2,
              a1 * c2 + a2 * c1 + b1 * d2 - b2 * d1,
              a1 * d2 + a2 * d1 + b2 * c1 - b1 * c2)

RotorThen(self, then) == RotorAfter(then, self)

\* a faulty variant of Rotor::rotate: the rotor is applied from the other side
RotorRotateReversed(self, point) ==
    Vec(-(self.e12 * self.e12 * point.x + self.e13 * self.e13 * point.x
            - 2 * self.e12 * self.e23 * point.z - self.s * self.s * point.x
            - self.e23 * self.e23 * point.x - 2 * self.s * self.e12 * point.y
            - 2 * self.s * self.e13 * point.z + 2 * self.e13 * self.e23 * point.y),
        self.s * self.s * point.y + self.e13 * self.e13 * point.y
            + 2 * self.s * self.e23 * point.z - 2 * self.e12 * self.e13 * point.z
            - 2 * self.e13 * self.e23 * point.x - self.e12 * self.e12 * point.y
            - self.e23 * self.e23 * point.y - 2 * self.s * self.e12 * point.x,
        -(self.e13 * self.e13 * point.z + self.e23 * self.e23 * point.z
            + 2 * self.s * self.e13 * point.x + 2 * self.s * self.e23 * point.y
            - 2 * self.e12 * self.e23 * point.x - self.s * self.s * point.z
            - self.e12 * self.e12 * point.z + 2 * self.e12 * self.e13 * point.y))

RotorRotate(self, point) ==
    LET a == self.s  b == self.e12  c == self.e13  d == self.e23
        x == point.x  y == point.y  z == point.z
        e012 == c * c * z + d * d * z
                - 2 * a * c * x
                - 2 * a * d * y
                - 2 * b * d * x
                - a * a * z
                - b * b * z
                + 2 * b * c * y
        e013 == a * a * y + c * c * y
                - 2 * a * d * z
                - 2 * b * c * z
                - 2 * c * d * x
                - b * b * y
                - d * d * y
                + 2 * a * b * x
        e023 == b * b * x + c * c * x - 2 * b * d * z - a * a * x - d * d * x
                + 2 * a * b * y
                + 2 * a * c * z
                + 2 * c * d * y
    IN  Vec(-e023, e013, -e012)

(***************************************************************************)
(* crates/math/src/transform.rs                                            *)
(***************************************************************************)
Transform(s, e12, e13, e23, e01, e02, e03, e0123) ==
    [s |-> s, e12 |-> e12, e13 |-> e13, e23 |-> e23,
     e01 |-> e01, e02 |-> e02, e03 |-> e03, e0123 |-> e0123]

IDENTITY == Transform(1, 0, 0, 0, 0, 0, 0, 0)

\* a faulty variant of Transform::translation: e0i holds the whole offset
translation_whole(offset) ==
    Transform(1, 0, 0, 0, 2 * offset.x, 2 * offset.y, 2 * offset.z, 0)

\* e0i = offset_i * 0.5: the length offset_i is offset_i half units of 0.5
translation(offset) == Transform(1, 0, 0, 0, offset.x, offset.y, offset.z, 0)

from_rotor(rotor) == Transform(rotor.s, rotor.e12, rotor.e13, rotor.e23, 0, 0, 0, 0)

rotor_part(self) == Rotor(self.s, self.e12, self.e13, self.e23)

\* a faulty variant of Transform::reverse: the translation part keeps its sign
reverse_rotor_only(self) ==
    Transform(self.s, -self.e12, -self.e13, -self.e23,
              self.e01, self.e02, self.e03, self.e0123)

reverse(self) ==
    Transform(self.s, -self.e12, -self.e13, -self.e23,
              -self.e01, -self.e02, -self.e03, self.e0123)

after(self, aft) ==
    LET a1 == self.s   b1 == self.e12  c1 == self.e13  d1 == self.e23
        e1 == self.e01 f1 == self.e02  g1 == self.e03  h1 == self.e0123
        a2 == aft.s    b2 == aft.e12   c2 == aft.e13   d2 == aft.e23
        e2 == aft.e01  f2 == aft.e02   g2 == aft.e03   h2 == aft.e0123
    IN  Transform(
            a1 * a2 - b1 * b2 - c1 * c2 - d1 * d2,
            a1 * b2 + a2 * b1 + c2 * d1 - c1 * d2,
            a1 * c2 + a2 * c1 + b1 * d2 - b2 * d1,
            a1 * d2 + a2 * d1 + b2 * c1 - b1 * c2,
            a1 * e2 + a2 * e1 + b1 * f2 + c1 * g2 - b2 * f1 - c2 * g1 - d1 * h2 - d2 * h1,
            a1 * f2 + a2 * f1 + b2 * e1 + c1 * h2 + c2 * h1 + d1 * g2 - b1 * e2 - d2 * g1,
            a1 * g2 + a2 * g1 + c2 * e1 + d2 * f1 - b1 * h2 - b2 * h1 - c1 * e2 - d1 * f2,
            a1 * h2 + a2 * h1 + b1 * g2 + b2 * g1 + d1 * e2 + d2 * e1 - c1 * f2 - c2 * f1)

then(self, thn) == after(thn, self)

\* The terms in e, f, g, h are products with a half-unit coefficient; FromHalf
\* reads their sum as a length.
transform_point(self, point) ==
    LET a == self.s    b == self.e12  c == self.e13  d == self.e23
        e == self.e01  f == self.e02  g == self.e03  h == self.e0123
        x == point.x  y == point.y  z == point.z
        e012 == FromHalf(-2 * a * g - 2 * b * h - 2 * c * e - 2 * d * f)
                + c * c * z + d * d * z
                - 2 * a * c * x
                - 2 * a * d * y
                - 2 * b * d * x
                - a * a * z
                - b * b * z
                + 2 * b * c * y
        e013 == FromHalf(-2 * c * h - 2 * d * g + 2 * a * f + 2 * b * e)
                + a * a * y + c * c * y
                - 2 * a * d * z
                - 2 * b * c * z
                - 2 * c * d * x
                - b * b * y
                - d * d * y
                + 2 * a * b * x
        e023 == FromHalf(-2 * a * e - 2 * d * h + 2 * b * f + 2 * c * g)
                + b * b * x + c * c * x
                - 2 * b * d * z
                - a * a * x
                - d * d * x
                + 2 * a * b * y
                + 2 * a * c * z
                + 2 * c * d * y
    IN  Vec(-e023, e013, -e012)

(***************************************************************************)
(* Rotor::magnitude and Rotor::normalised, used by Camera::update.         *)
(***************************************************************************)
\* the magnitude of a rotor, counted in 1/DirOne
rotor_magnitude(self) ==
    Sqrt((self.s * self.s + self.e12 * self.e12 + self.e13 * self.e13
          + self.e23 * self.e23) * DirOne * DirOne)

rotor_normalised(self) ==
    LET m == rotor_magnitude(self)
    IN  IF m = 0 THEN self
        ELSE Rotor(Div(self.s * DirOne, m), Div(self.e12 * DirOne, m),
                   Div(self.e13 * DirOne, m), Div(self.e23 * DirOne, m))

(***************************************************************************)
(* crates/app/src/plane.rs                                                 *)
(***************************************************************************)
PortalConnection(other_index) == [other_index |-> other_index, flip |-> FALSE]

PortalConnectionDefault == PortalConnection(None)

PlaneDefault ==
    [name |-> "Default Plane",
     position |-> Vec(0, 0, 0),
     xy_rotation |-> 0, yz_rotation |-> 0, xz_rotation |-> 0,
     color |-> <<1, 1, 1>>,
     width |-> One, height |-> One,
     checker_count_x |-> 1, checker_count_z |-> 1,
     checker_darkness |-> One \div 2,
     emissive_color |-> <<0, 0, 0>>,
     emission_intensity |-> 0,
     emissive_checker_darkness |-> One \div 2,
     front_portal |-> PortalConnectionDefault,
     back_portal |-> PortalConnectionDefault]

PlaneTransform(self) ==
    then(translation(self.position),
         from_rotor(RotorThen(RotorThen(rotation_xy(self.xy_rotation),
                                        rotation_yz(self.yz_rotation)),
                              rotation_xz(self.xz_rotation))))

Ray(origin, direction) == [origin |-> origin, direction |-> direction]

\* a direction coefficient read as a length
DirToLen(d) == d * (One \div DirOne)

\* a faulty variant of the bounds test: the boundary of the rectangle is outside
IntersectBoundedStrict(self, hit, local_pos) ==
    IF \/ local_pos.x * 2 <= -self.width
       \/ local_pos.z * 2 <= -self.height
       \/ local_pos.x * 2 >= self.width
       \/ local_pos.z * 2 >= self.height
    THEN None
    ELSE Some(hit)

\* plane.rs 89-103: the bounds test of the hit in the plane's own frame
IntersectBounded(self, hit, local_pos) ==
    IF \/ local_pos.x * 2 < -self.width
       \/ local_pos.z * 2 < -self.height
       \/ local_pos.x * 2 > self.width
       \/ local_pos.z * 2 > self.height
    THEN None
    ELSE Some(hit)

\* a faulty variant of the hit: front is taken from the opposite sign
IntersectAtBackFront(self, ray, transform, origin, direction, distance) ==
    IntersectBounded(
        self,
        [distance |-> distance,
         position |-> VAdd(ray.origin,
                           Vec(MulDir(distance, ray.direction.x),
                               MulDir(distance, ray.direction.y),
                               MulDir(distance, ray.direction.z))),
         normal |-> normalised(transform_point(transform,
                                               Vec(0, DirToLen(-direction.y), 0))),
         front |-> direction.y > 0],
        VAdd(origin,
             Vec(MulDir(distance, direction.x),
                 MulDir(distance, direction.y),
                 MulDir(distance, direction.z))))

\* plane.rs 78-88: the hit at `distance` along the ray
IntersectAt(self, ray, transform, origin, direction, distance) ==
    IntersectBounded(
        self,
        [distance |-> distance,
         position |-> VAdd(ray.origin,
                           Vec(MulDir(distance, ray.direction.x),
                               MulDir(distance, ray.direction.y),
                               MulDir(distance, ray.direction.z))),
         normal |-> normalised(transform_point(transform,
                                               Vec(0, DirToLen(-direction.y), 0))),
         front |-> direction.y < 0],
        VAdd(origin,
             Vec(MulDir(distance, direction.x),
                 MulDir(distance, direction.y),
                 MulDir(distance, direction.z))))

\* a faulty variant of the miss conditions: a ray pointing away is not rejected
IntersectLocalAway(self, ray, transform, origin, direction) ==
    IF Abs(direction.y) * 1000 < DirOne
    THEN None
    ELSE IntersectAt(self, ray, transform, origin, direction,
                     Abs(Div(origin.y * DirOne, direction.y)))

\* plane.rs 74-78: a ray that leaves the plane or runs along it hits nothing
IntersectLocal(self, ray, transform, origin, direction) ==
    IF Signum(origin.y) = Signum(direction.y) \/ Abs(direction.y) * 1000 < DirOne
    THEN None
    ELSE IntersectAt(self, ray, transform, origin, direction,
                     Abs(Div(origin.y * DirOne, direction.y)))

\* plane.rs 71-72: the ray in the plane's own frame
IntersectInverse(self, ray, transform, inverse_transform) ==
    IntersectLocal(self, ray, transform,
                   transform_point(inverse_transform, ray.origin),
                   RotorRotate(rotor_part(inverse_transform), ray.direction))

\* plane.rs 70: the inverse of the plane's transform
IntersectWith(self, ray, transform) ==
    IntersectInverse(self, ray, transform, reverse(transform))

\* Plane::intersect: None, or Some(Hit)
intersect(self, ray) == IntersectWith(self, ray, PlaneTransform(self))

\* u32::MAX, narrowed to 10 bits as usize is narrowed to 20
U32Max == 2^10 - 1

\* plane.rs 129-135 and 136-142: the connection of the device record; `as u32`
\* keeps the low bits of the index
gpu_connection(connection) ==
    [other_index |-> IF IsSome(connection.other_index)
                     THEN Unwrap(connection.other_index) % (U32Max + 1)
                     ELSE U32Max,
     flip |-> IF connection.flip THEN 1 ELSE 0]

\* a faulty variant of Plane::to_gpu: the two connections exchanged
to_gpu_swapped(self) ==
    [transform |-> PlaneTransform(self),
     color |-> self.color,
     width |-> self.width,
     height |-> self.height,
     checker_count_x |-> self.checker_count_x,
     checker_count_z |-> self.checker_count_z,
     checker_darkness |-> self.checker_darkness,
     front_portal |-> gpu_connection(self.back_portal),
     back_portal |-> gpu_connection(self.front_portal)]

\* Plane::to_gpu
to_gpu(self) ==
    [transform |-> PlaneTransform(self),
     color |-> self.color,
     width |-> self.width,
     height |-> self.height,
     checker_count_x |-> self.checker_count_x,
     checker_count_z |-> self.checker_count_z,
     checker_darkness |-> self.checker_darkness,
     front_portal |-> gpu_connection(self.front_portal),
     back_portal |-> gpu_connection(self.back_portal)]

(***************************************************************************)
(* crates/app/src/camera.rs                                                *)
(***************************************************************************)
CameraTransform(self) == then(translation(self.position), from_rotor(self.rotation))

KeySet == {"W", "S", "E", "Q", "A", "D", "ArrowUp", "ArrowDown", "ArrowLeft", "ArrowRight"}

\* a faulty variant of key_down: the arrow keys are not read
key_down_letters(i, key) ==
    IF key \in i.keys \cap {"W", "S", "E", "Q", "A", "D"} THEN 1 ELSE 0

\* i.key_down(key) as u8 as f32
key_down(i, key) == IF key \in i.keys THEN 1 ELSE 0

\* vertical * rotation_speed * TAU * ts, in half turns: rotation_speed is counted
\* in quarter turns per second and ts in 1/One seconds
HalfTurns(n) == Div(n, 2 * One)

\* Camera::update: the camera afterwards and the returned flag
CameraUpdate(self, i, ts) ==
    LET forward == key_down(i, "W")
        backward == key_down(i, "S")
        up == key_down(i, "E")
        down == key_down(i, "Q")
        left == key_down(i, "A")
        right == key_down(i, "D")
        changed1 == forward # 0 \/ backward # 0 \/ up # 0 \/ down # 0
                    \/ left # 0 \/ right # 0
        boost == (IF i.shift THEN 1 ELSE 0) + 1
        movement == normalised_axes(Vec(forward - backward, up - down, right - left))
        rotated == RotorRotate(self.rotation, movement)
        position == VAdd(self.position,
                         Vec(MulDir(self.speed * boost * ts, rotated.x),
                             MulDir(self.speed * boost * ts, rotated.y),
                             MulDir(self.speed * boost * ts, rotated.z)))
        rup == key_down(i, "ArrowUp")
        rdown == key_down(i, "ArrowDown")
        rleft == key_down(i, "ArrowLeft")
        rright == key_down(i, "ArrowRight")
        changed2 == changed1 \/ rup # 0 \/ rdown # 0 \/ rleft # 0 \/ rright # 0
        vertical == rup - rdown
        rotation1 == RotorThen(self.rotation,
                               rotation_xy(HalfTurns(vertical * self.rotation_speed * ts)))
        rotation2 ==
            IF i.shift
            THEN RotorThen(rotation1,
                           rotation_yz(HalfTurns((rright - rleft) * self.rotation_speed * ts)))
            ELSE RotorThen(rotation1,
                           rotation_xz(HalfTurns((rright - rleft) * self.rotation_speed * ts)))
        renormalise == Abs(rotor_magnitude(rotation2) - DirOne) * 1000 > DirOne
    IN  [camera |-> [self EXCEPT !.position = position,
                                 !.rotation = IF renormalise THEN rotor_normalised(rotation2)
                                              ELSE rotation2],
         changed |-> changed2 \/ renormalise]

(***************************************************************************)
(* crates/app/src/main.rs: the scene, the settings and App::update         *)
(***************************************************************************)
\* sun_size is counted in degrees: PI is 180 and 6.0f32.to_radians() is 6
PI == 18 * 10

RenderSettingsDefault ==
    [info_window_open |-> TRUE,
     camera_window_open |-> TRUE,
     render_settings_window_open |-> TRUE,
     planes_window_open |-> TRUE,
     render_type |-> "Unlit",
     antialiasing |-> TRUE,
     recursive_portal_count |-> 10,
     max_bounces |-> 3]

\* Scene::default(); rotation_speed 0.25 is one quarter turn per second
SceneDefault ==
    [camera |-> [position |-> Vec(0, One + One \div 10, 0),
                 rotation |-> ROTOR_IDENTITY,
                 speed |-> 2,
                 rotation_speed |-> 1],
     up_sky_color |-> <<4, 5, 8>>,
     up_sky_intensity |-> 1,
     down_sky_color |-> <<4, 4, 4>>,
     down_sky_intensity |-> 1,
     sun_color |-> <<1, 1, 1>>,
     sun_intensity |-> 100,
     sun_direction |-> Vec(4 * (One \div 10), One, 2 * (One \div 10)),
     sun_size |-> 6,
     planes |-> << [PlaneDefault EXCEPT !.name = "Ground",
                                        !.width = 10 * One,
                                        !.height = 10 * One,
                                        !.checker_count_x = 10,
                                        !.checker_count_z = 10,
                                        !.color = <<1, 0, 0>>] >>]

\* planes[index] of a Vec<Plane>
At(planes, index) == planes[index + 1]

InBounds(planes, index) == index >= 0 /\ index < Len(planes)

Max(a, b) == IF a >= b THEN a ELSE b

Clamp(v, lo, hi) == IF v < lo THEN lo ELSE IF v > hi THEN hi ELSE v

\* usize::MAX, the value a wrapping `-= 1` gives 0 (narrowed to 20 bits)
UsizeMax == 2^20 - 1

(***************************************************************************)
(* The input of one frame: what the UI collaborator reports during one     *)
(* call of App::update.                                                    *)
(***************************************************************************)
NoInput ==
    [reset_everything |-> FALSE,
     load_clicked |-> FALSE,
     save_clicked |-> FALSE,
     window_buttons |-> {},
     window_closed |-> {},
     settings_edit |-> None,
     clear |-> FALSE,
     camera_edit |-> None,
     new_plane |-> FALSE,
     plane_edit |-> None,
     portal_ui_open |-> {},
     select |-> None,
     to_delete |-> {},
     picked |-> FALSE,
     file_scene |-> None,
     wants_keyboard_input |-> FALSE,
     keys |-> {},
     shift |-> FALSE,
     dt |-> 0,
     rect |-> [width |-> 32, height |-> 16]]

\* the locals of App::update while a frame runs
Locals(sc, rs, af, fi, rect) ==
    [scene |-> sc, render_settings |-> rs, accumulated_frames |-> af,
     file_interaction |-> fi, rendering_changed |-> FALSE, panicked |-> FALSE,
     hops |-> 0, dispatch |-> None, rect |-> rect]

\* lines 197-221: the top bar and RESET EVERYTHING
TopBar(st, in) ==
    LET fi1 == IF in.load_clicked THEN "Load" ELSE st.file_interaction
        fi2 == IF in.save_clicked THEN "Save" ELSE fi1
        rs == st.render_settings
        rs1 == [rs EXCEPT
                  !.info_window_open = @ \/ "Info" \in in.window_buttons,
                  !.render_settings_window_open = @ \/ "Render Settings" \in in.window_buttons,
                  !.camera_window_open = @ \/ "Camera" \in in.window_buttons,
                  !.planes_window_open = @ \/ "Planes" \in in.window_buttons]
    IN  [st EXCEPT !.file_interaction = fi2,
                   !.render_settings = rs1,
                   !.scene = IF in.reset_everything THEN SceneDefault ELSE @,
                   !.rendering_changed = IF in.reset_everything THEN TRUE ELSE @]

\* a widget bound to `field` of record r: the value afterwards, and changed()
Edited(r, edit) == [r EXCEPT ![edit.field] = edit.value]

EditChanged(r, edit) == r[edit.field] # edit.value

RenderingFields == {"render_type", "antialiasing", "recursive_portal_count", "max_bounces"}

\* a faulty variant of the Render Settings window: the Clear button does nothing
RenderSettingsWindowNoClear(st, in) ==
    IF ~st.render_settings.render_settings_window_open THEN st
    ELSE LET rs == st.render_settings
             has == IsSome(in.settings_edit) /\ Unwrap(in.settings_edit).field \in RenderingFields
             e == Unwrap(in.settings_edit)
             rs1 == IF has THEN Edited(rs, e) ELSE rs
             ch == has /\ EditChanged(rs, e)
         IN  [st EXCEPT
                !.render_settings =
                    [rs1 EXCEPT !.render_settings_window_open =
                                    "Render Settings" \notin in.window_closed],
                !.rendering_changed = @ \/ ch]

\* lines 231-287: the Render Settings window, with the Clear button
RenderSettingsWindow(st, in) ==
    IF ~st.render_settings.render_settings_window_open THEN st
    ELSE LET rs == st.render_settings
             has == IsSome(in.settings_edit) /\ Unwrap(in.settings_edit).field \in RenderingFields
             e == Unwrap(in.settings_edit)
             rs1 == IF has THEN Edited(rs, e) ELSE rs
             ch == has /\ EditChanged(rs, e)
         IN  [st EXCEPT
                !.render_settings =
                    [rs1 EXCEPT !.render_settings_window_open =
                                    "Render Settings" \notin in.window_closed],
                !.rendering_changed = @ \/ ch,
                !.accumulated_frames = IF in.clear THEN 0 ELSE @]

\* Camera::ui (camera.rs 20-57): only the position widget reports a change
CameraUiFields == {"position", "speed", "rotation_speed"}

SkyFields == {"up_sky_color", "up_sky_intensity", "down_sky_color", "down_sky_intensity",
              "sun_color", "sun_intensity", "sun_size", "sun_direction"}

\* lines 289-339: the Camera window
CameraWindow(st, in) ==
    IF ~st.render_settings.camera_window_open THEN st
    ELSE LET sc == st.scene
             has == IsSome(in.camera_edit)
             e == Unwrap(in.camera_edit)
             cam == has /\ e.field \in CameraUiFields
             sky == has /\ e.field \in SkyFields
             camera1 == IF cam THEN Edited(sc.camera, e) ELSE sc.camera
             ch == \/ cam /\ e.field = "position" /\ EditChanged(sc.camera, e)
                   \/ sky /\ EditChanged(sc, e)
             sc1 == IF sky THEN Edited(sc, e) ELSE sc
             sc2 == [sc1 EXCEPT !.camera = camera1,
                                !.sun_size = Clamp(@, 0, PI)]
         IN  [st EXCEPT
                !.scene = sc2,
                !.rendering_changed = @ \/ ch,
                !.render_settings =
                    [@ EXCEPT !.camera_window_open = "Camera" \notin in.window_closed]]

\* lines 223-229: the Info window
InfoWindow(st, in) ==
    IF ~st.render_settings.info_window_open THEN st
    ELSE [st EXCEPT !.render_settings =
                        [@ EXCEPT !.info_window_open = "Info" \notin in.window_closed]]

Portal(plane, side) == IF side = "front" THEN plane.front_portal ELSE plane.back_portal

\* lines 455-461: selected_text indexes planes[other_index]
SelectedTextPanics(planes, index, side) ==
    LET o == Portal(At(planes, index), side).other_index
    IN  IsSome(o) /\ ~InBounds(planes, Unwrap(o))

\* lines 352-444: the widgets of one plane; every one but the name reports a change
PlaneEdited(plane, e) ==
    LET p1 == [plane EXCEPT ![e.field] = e.value]
    IN  [p1 EXCEPT !.checker_count_x = Max(@, 1), !.checker_count_z = Max(@, 1)]

\* lines 445-488: ui_portal_connection, a selectable value per plane and None
PortalSelected(plane, sel) ==
    IF sel.side = "front"
    THEN [plane EXCEPT !.front_portal.other_index = sel.value]
    ELSE [plane EXCEPT !.back_portal.other_index = sel.value]

\* `-= 1` on a usize: the wrapped value (overflow checks off)
WrappingDecrement(n) == IF n = 0 THEN UsizeMax ELSE n - 1

\* lines 513-519: the front portal of the plane at `index` while index_to_delete goes
DeleteFront(plane, index, index_to_delete) ==
    LET o == plane.front_portal.other_index
    IN  IF ~IsSome(o) THEN plane
        ELSE IF Unwrap(o) = index_to_delete
             THEN [plane EXCEPT !.front_portal.other_index = None]
             ELSE IF index > index_to_delete
                  THEN [plane EXCEPT !.front_portal.other_index =
                                         Some(WrappingDecrement(Unwrap(o)))]
                  ELSE plane

\* lines 520-526: the back portal of the plane at `index` while index_to_delete goes
DeleteBack(plane, index, index_to_delete) ==
    LET o == plane.back_portal.other_index
    IN  IF ~IsSome(o) THEN plane
        ELSE IF Unwrap(o) = index_to_delete
             THEN [plane EXCEPT !.front_portal.other_index = None]
             ELSE IF index > index_to_delete
                  THEN [plane EXCEPT !.back_portal.other_index =
                                         Some(WrappingDecrement(Unwrap(o)))]
                  ELSE plane

\* `-= 1` reaches 0 - 1 on a portal of the plane at `index`
DecrementOverflows(plane, index, index_to_delete) ==
    \E side \in {"front", "back"} :
        LET o == Portal(IF side = "back" THEN DeleteFront(plane, index, index_to_delete)
                        ELSE plane, side).other_index
        IN  IsSome(o) /\ Unwrap(o) # index_to_delete /\ index > index_to_delete
            /\ Unwrap(o) = 0

\* Vec::remove
Remove(planes, index) ==
    SubSeq(planes, 1, index) \o SubSeq(planes, index + 2, Len(planes))

\* lines 512-528: one round of the deletion loop
DeleteOne(planes, index_to_delete, overflow_checks) ==
    LET fixed == [i \in 1..Len(planes) |->
                     DeleteBack(DeleteFront(planes[i], i - 1, index_to_delete),
                                i - 1, index_to_delete)]
        overflow == \E i \in 1..Len(planes) :
                        DecrementOverflows(planes[i], i - 1, index_to_delete)
    IN  IF overflow /\ overflow_checks
        THEN [planes |-> planes, panicked |-> TRUE]
        ELSE [planes |-> Remove(fixed, index_to_delete), panicked |-> FALSE]

SetMax(S) == CHOOSE m \in S : \A n \in S : n <= m

\* line 511: to_delete.into_iter().rev()
RECURSIVE DeleteAll(_, _, _)
DeleteAll(planes, to_delete, overflow_checks) ==
    IF to_delete = {} THEN [planes |-> planes, panicked |-> FALSE]
    ELSE LET k == SetMax(to_delete)
             r == DeleteOne(planes, k, overflow_checks)
         IN  IF r.panicked THEN r
             ELSE DeleteAll(r.planes, to_delete \ {k}, overflow_checks)

\* lines 341-530: the Planes window
PlanesWindow(st, in, overflow_checks) ==
    IF ~st.render_settings.planes_window_open THEN st
    ELSE LET planes0 == IF in.new_plane THEN Append(st.scene.planes, PlaneDefault)
                        ELSE st.scene.planes
             hasEdit == IsSome(in.plane_edit) /\ InBounds(planes0, Unwrap(in.plane_edit).index)
             e == Unwrap(in.plane_edit)
             planes1 == IF hasEdit
                        THEN [planes0 EXCEPT ![e.index + 1] = PlaneEdited(@, e)]
                        ELSE planes0
             editChanged == hasEdit /\ e.field # "name"
                            /\ At(planes0, e.index)[e.field] # e.value
             hasSel == IsSome(in.select) /\ InBounds(planes0, Unwrap(in.select).index)
             sel == Unwrap(in.select)
             shown == {c \in in.portal_ui_open : InBounds(planes0, c[1])}
                      \cup (IF hasSel THEN {<<sel.index, sel.side>>} ELSE {})
             textPanics == \E c \in shown : SelectedTextPanics(planes1, c[1], c[2])
             planes2 == IF hasSel
                        THEN [planes1 EXCEPT ![sel.index + 1] = PortalSelected(@, sel)]
                        ELSE planes1
             selChanged == hasSel
                           /\ Portal(At(planes1, sel.index), sel.side).other_index # sel.value
             to_delete == {k \in in.to_delete : InBounds(planes0, k)}
             deleted == DeleteAll(planes2, to_delete, overflow_checks)
         IN  IF textPanics THEN [st EXCEPT !.panicked = TRUE]
             ELSE IF deleted.panicked THEN [st EXCEPT !.panicked = TRUE]
             ELSE [st EXCEPT
                     !.scene.planes = deleted.planes,
                     !.rendering_changed = @ \/ in.new_plane \/ editChanged \/ selChanged
                                             \/ to_delete # {},
                     !.render_settings =
                         [@ EXCEPT !.planes_window_open = "Planes" \notin in.window_closed]]

\* a faulty variant of the file dialog: a file that cannot be read or parsed
\* loads the default scene
FileDialogFallback(st, in) ==
    IF st.panicked \/ ~in.picked THEN st
    ELSE IF st.file_interaction = "Load"
         THEN [st EXCEPT !.file_interaction = "None",
                         !.scene = IF IsSome(in.file_scene)
                                   THEN Unwrap(in.file_scene) ELSE SceneDefault,
                         !.rendering_changed = TRUE]
         ELSE [st EXCEPT !.file_interaction = "None"]

\* lines 532-552: a picked path; file_scene is None when the file cannot be read
\* or parsed
FileDialog(st, in) ==
    IF st.panicked \/ ~in.picked THEN st
    ELSE IF st.file_interaction = "Load" /\ IsSome(in.file_scene)
         THEN [st EXCEPT !.file_interaction = "None",
                         !.scene = Unwrap(in.file_scene),
                         !.rendering_changed = TRUE]
         ELSE [st EXCEPT !.file_interaction = "None"]

\* a faulty variant of the fold: of two hits at the same distance the later one
\* is kept
FoldHitLast(closest_hit, index, hit) ==
    IF IsSome(closest_hit)
    THEN IF IsSome(hit) /\ Unwrap(hit).distance <= Unwrap(closest_hit)[2].distance
         THEN Some(<<index, Unwrap(hit)>>)
         ELSE closest_hit
    ELSE IF IsSome(hit) THEN Some(<<index, Unwrap(hit)>>) ELSE None

\* lines 570-582: the closure of the fold, which keeps the first hit of the
\* smallest distance; closest_hit is None or Some(<<index, hit>>)
FoldHit(closest_hit, index, hit) ==
    IF IsSome(closest_hit)
    THEN IF IsSome(hit) /\ Unwrap(hit).distance < Unwrap(closest_hit)[2].distance
         THEN Some(<<index, Unwrap(hit)>>)
         ELSE closest_hit
    ELSE IF IsSome(hit) THEN Some(<<index, Unwrap(hit)>>) ELSE None

\* lines 565-583: the fold over planes.iter().enumerate() from `index` on
RECURSIVE ClosestHitFrom(_, _, _, _)
ClosestHitFrom(planes, ray, index, closest_hit) ==
    IF index >= Len(planes) THEN closest_hit
    ELSE ClosestHitFrom(planes, ray, index + 1,
                        FoldHit(closest_hit, index, intersect(At(planes, index), ray)))

ClosestHit(planes, ray) == ClosestHitFrom(planes, ray, 0, None)

\* a faulty variant of the hop: the two planes exchanged
HopTransformSwapped(plane, other_plane) ==
    then(PlaneTransform(plane), reverse(PlaneTransform(other_plane)))

\* a faulty variant of the hop: the source plane's transform is not undone
HopTransformForward(plane, other_plane) == PlaneTransform(other_plane)

\* a faulty variant of the hop: composed with `after` in place of `then`
HopTransformAfter(plane, other_plane) ==
    after(PlaneTransform(other_plane), reverse(PlaneTransform(plane)))

\* lines 593 and 603: the hop from `plane` to `other_plane`
HopTransform(plane, other_plane) ==
    then(PlaneTransform(other_plane), reverse(PlaneTransform(plane)))

\* lines 592-598 and 602-608: the hop applied to the camera
ApplyHop(camera, plane, other_plane) ==
    LET transform == HopTransform(plane, other_plane)
    IN  [camera EXCEPT
           !.position = transform_point(transform, camera.position),
           !.rotation = RotorThen(rotor_part(transform), camera.rotation)]

\* lines 585-610: the camera after the crossing test of the closest hit against
\* the length of the displacement, the number of hops applied, and whether
\* planes[other_index] was out of bounds
Crossing(planes, camera, closest_hit, length) ==
    LET index == Unwrap(closest_hit)[1]
        hit == Unwrap(closest_hit)[2]
        plane == At(planes, index)
        front == plane.front_portal.other_index
        back == plane.back_portal.other_index
        other_index == IF IsSome(front) /\ hit.front THEN front
                       ELSE IF IsSome(back) /\ ~hit.front THEN back
                       ELSE None
        stay == [camera |-> camera, hops |-> 0, panicked |-> FALSE]
    IN  IF IsSome(closest_hit) /\ hit.distance < length
        THEN IF ~IsSome(other_index) THEN stay
             ELSE IF ~InBounds(planes, Unwrap(other_index))
                  THEN [camera |-> camera, hops |-> 0, panicked |-> TRUE]
                  ELSE [camera |-> ApplyHop(camera, plane, At(planes, Unwrap(other_index))),
                        hops |-> 1, panicked |-> FALSE]
        ELSE stay

\* a faulty variant of the traversal: after a hop, the displacement is tested
\* again from the far side of the portal
TraverseRescan(planes, camera, old_position, new_position) ==
    LET displacement == VSub(new_position, old_position)
        direction == normalised(displacement)
        length == magnitude(displacement)
        first == Crossing(planes, camera, ClosestHit(planes, Ray(old_position, direction)),
                          length)
        restart == VSub(first.camera.position, displacement)
        second == Crossing(planes, first.camera,
                           ClosestHit(planes, Ray(restart, direction)), length)
    IN  IF first.hops = 1 THEN [second EXCEPT !.hops = @ + 1] ELSE first

\* lines 560-610: the ray from old_position to new_position, its closest hit and
\* the crossing
Traverse(planes, camera, old_position, new_position) ==
    Crossing(planes, camera,
             ClosestHit(planes, Ray(old_position,
                                    normalised(VSub(new_position, old_position)))),
             magnitude(VSub(new_position, old_position)))

\* lines 585-610 within the frame: t is the outcome of the traversal
Traversed(st, changed, t) ==
    IF t.panicked THEN [st EXCEPT !.panicked = TRUE]
    ELSE [st EXCEPT !.scene.camera = t.camera,
                    !.hops = t.hops,
                    !.rendering_changed = @ \/ changed \/ t.hops > 0]

\* a faulty variant of the input phase: the ray starts at the world's origin
MovedFromOrigin(st, old_position, u) ==
    Traversed(st, u.changed,
              Traverse(st.scene.planes, u.camera, ZERO, u.camera.position))

\* lines 556-610 within the frame: u is the outcome of Camera::update
Moved(st, old_position, u) ==
    Traversed(st, u.changed,
              Traverse(st.scene.planes, u.camera, old_position, u.camera.position))

\* a faulty variant of the input phase: the keys are read whatever has the focus
InputPhaseUnfocused(st, in, ts) ==
    IF st.panicked THEN st
    ELSE Moved(st, st.scene.camera.position,
               CameraUpdate(st.scene.camera, [keys |-> in.keys, shift |-> in.shift], ts))

\* lines 554-612: the keyboard input, the camera update and the portal traversal
InputPhase(st, in, ts) ==
    IF st.panicked \/ in.wants_keyboard_input THEN st
    ELSE Moved(st, st.scene.camera.position,
               CameraUpdate(st.scene.camera, [keys |-> in.keys, shift |-> in.shift], ts))

(***************************************************************************)
(* crates/ray_tracing/src/lib.rs: the renderer and RayTracingPaintCallback *)
(***************************************************************************)

\* GpuPlane::SHADER_SIZE in bytes (lines 37-51); only its being positive matters
GpuPlaneSize == 96

\* lines 213-229 and 253-268: RayTracingRenderer::new. A texture and a buffer
\* carry the number of their allocation, a bind group the number of what it binds;
\* `samples` counts the samples blended into a texture since it was created or
\* last overwritten, `written` is the size of the last write to the planes buffer
RendererNew ==
    [allocations |-> 2,
     ray_tracing_texture |-> [id |-> 1, width |-> 1, height |-> 1, samples |-> 0],
     ray_tracing_texture_write_bind_group |-> 1,
     planes_buffer |-> [id |-> 2, size |-> GpuPlaneSize],
     objects_bind_group |-> 2,
     written |-> 0]

\* self.planes.size(): the stride of a GpuPlane times the length, at least one
PlanesSize(self) == GpuPlaneSize * Max(self.plane_count, 1)

\* lines 384-403: a texture of the callback's width and height replaces one of
\* another size, with both of its bind groups
PrepareTexture(self, renderer) ==
    IF /\ self.width > 0
       /\ self.height > 0
       /\ \/ renderer.ray_tracing_texture.width # self.width
          \/ renderer.ray_tracing_texture.height # self.height
    THEN [renderer EXCEPT
            !.allocations = @ + 1,
            !.ray_tracing_texture = [id |-> renderer.allocations + 1,
                                     width |-> self.width, height |-> self.height,
                                     samples |-> 0],
            !.ray_tracing_texture_write_bind_group = renderer.allocations + 1]
    ELSE renderer

\* a faulty variant of lines 425-451: the objects bind group is never recreated
PreparePlanesStale(self, renderer) ==
    IF PlanesSize(self) > renderer.planes_buffer.size
    THEN [renderer EXCEPT
            !.allocations = @ + 1,
            !.planes_buffer = [id |-> renderer.allocations + 1, size |-> PlanesSize(self)],
            !.written = PlanesSize(self)]
    ELSE [renderer EXCEPT !.written = PlanesSize(self)]

\* lines 425-451: the planes are written into the planes buffer, which a larger
\* one replaces first where they do not fit, with the objects bind group
PreparePlanes(self, renderer) ==
    IF PlanesSize(self) > renderer.planes_buffer.size
    THEN [renderer EXCEPT
            !.allocations = @ + 1,
            !.planes_buffer = [id |-> renderer.allocations + 1, size |-> PlanesSize(self)],
            !.objects_bind_group = renderer.allocations + 1,
            !.written = PlanesSize(self)]
    ELSE [renderer EXCEPT !.written = PlanesSize(self)]

\* lines 453-473 and the kernel's blend new = (old * n + sample) / (n + 1) with
\* n = accumulated_frames: n = 0 overwrites the texture the write bind group refers
\* to with one sample, any other n adds one sample to it
Dispatch(self, renderer) ==
    IF renderer.ray_tracing_texture_write_bind_group = renderer.ray_tracing_texture.id
    THEN [renderer EXCEPT !.ray_tracing_texture.samples =
                              IF self.accumulated_frames = 0 THEN 1 ELSE @ + 1]
    ELSE renderer

\* lines 374-476: RayTracingPaintCallback::prepare
prepare(self, renderer) ==
    Dispatch(self, PreparePlanes(self, PrepareTexture(self, renderer)))

\* lines 623-649: the paint callback handed to the renderer
PaintCallback(st) ==
    [width |-> st.rect.width,
     height |-> st.rect.height,
     camera |-> [transform |-> CameraTransform(st.scene.camera),
                 sun_size |-> st.scene.sun_size,
                 recursive_portal_count |-> st.render_settings.recursive_portal_count,
                 max_bounces |-> st.render_settings.max_bounces],
     accumulated_frames |-> st.accumulated_frames,
     render_type |-> IF st.render_settings.render_type = "Unlit" THEN 0 ELSE 1,
     antialiasing |-> st.render_settings.antialiasing,
     plane_count |-> Len(st.scene.planes)]

\* a faulty variant of the central panel: line 650 is missing
CentralPanelNoCount(st) ==
    IF st.panicked THEN st
    ELSE LET st1 == [st EXCEPT !.accumulated_frames = IF st.rendering_changed THEN 0 ELSE @]
         IN  [st1 EXCEPT !.dispatch = Some(PaintCallback(st1))]

\* a faulty variant of the central panel: lines 620-622 are missing
CentralPanelKeepsCount(st) ==
    IF st.panicked THEN st
    ELSE [st EXCEPT !.dispatch = Some(PaintCallback(st)),
                    !.accumulated_frames = @ + 1]

\* lines 614-651: the central panel
CentralPanel(st) ==
    IF st.panicked THEN st
    ELSE LET st1 == [st EXCEPT !.accumulated_frames = IF st.rendering_changed THEN 0 ELSE @]
         IN  [st1 EXCEPT !.dispatch = Some(PaintCallback(st1)),
                         !.accumulated_frames = @ + 1]

VARIABLES
    scene,               \* App::scene
    render_settings,     \* App::render_settings
    accumulated_frames,  \* App::accumulated_frames
    file_interaction,    \* App::file_interaction
    last_time,           \* App::last_time: None or Some of the frame number
    overflow_checks,     \* whether the build panics on integer overflow
    panicked,            \* a frame has panicked: the process is gone
    input,               \* the input of the last frame
    before,              \* the scene and accumulated_frames the last frame started from
    rendering_changed,   \* rendering_changed at the end of the last frame
    hops,                \* the hops the last frame applied
    dispatch,            \* the paint callback of the last frame
    prev_dispatch,       \* the paint callback of the frame before
    frame_no,            \* the frames so far, where a specification bounds them
    call,                \* the function called last and its arguments, or None
    result,              \* what that call returned
    renderer             \* the RayTracingRenderer in the callback resources

vars == <<scene, render_settings, accumulated_frames, file_interaction, last_time,
          overflow_checks, panicked, input, before, rendering_changed, hops,
          dispatch, prev_dispatch, frame_no, call, result, renderer>>

\* ts of a frame with input `in`: dt is 0 while last_time is None (lines 189-193)
FrameTime(in) == IF IsSome(last_time) THEN in.dt ELSE 0

\* lines 188-654: App::update, one frame
EndOfFrame(in) ==
    CentralPanel(
      InputPhase(
        FileDialog(
          PlanesWindow(
            CameraWindow(
              RenderSettingsWindow(
                InfoWindow(
                  TopBar(Locals(scene, render_settings, accumulated_frames,
                                file_interaction, in.rect),
                         in),
                  in),
                in),
              in),
            in, overflow_checks),
          in),
        in, FrameTime(in)))

Update(in) ==
    /\ ~panicked
    /\ \E st \in {EndOfFrame(in)} :
           /\ scene' = st.scene
           /\ render_settings' = st.render_settings
           /\ accumulated_frames' = st.accumulated_frames
           /\ file_interaction' = st.file_interaction
           /\ panicked' = st.panicked
           /\ rendering_changed' = st.rendering_changed
           /\ hops' = st.hops
           /\ dispatch' = st.dispatch
           /\ renderer' = IF IsSome(st.dispatch)
                          THEN prepare(Unwrap(st.dispatch), renderer)
                          ELSE renderer
    /\ last_time' = Some("Instant::now()")
    /\ input' = in
    /\ before' = [scene |-> scene, accumulated_frames |-> accumulated_frames,
                  render_settings |-> render_settings,
                  file_interaction |-> file_interaction, ts |-> FrameTime(in),
                  renderer |-> renderer]
    /\ prev_dispatch' = dispatch
    /\ frame_no' = frame_no + 1
    /\ UNCHANGED <<overflow_checks, call, result>>

(***************************************************************************)
(* App::new (lines 151-184) and the specifications.                        *)
(***************************************************************************)
\* App::new with `sc` the stored scene, or Scene::default() without storage
AppNew(sc) ==
    /\ scene = sc
    /\ render_settings = RenderSettingsDefault
    /\ accumulated_frames = 0
    /\ file_interaction = "None"
    /\ last_time = None
    /\ panicked = FALSE
    /\ input = NoInput
    /\ before = [scene |-> sc, accumulated_frames |-> 0,
                 render_settings |-> RenderSettingsDefault,
                 file_interaction |-> "None", ts |-> 0,
                 renderer |-> RendererNew]
    /\ renderer = RendererNew
    /\ rendering_changed = FALSE
    /\ hops = 0
    /\ dispatch = None
    /\ prev_dispatch = None
    /\ frame_no = 0
    /\ call = None
    /\ result = None

MaxPlanes == 3

MaxFrames == 4

Indices == 0..(Len(scene.planes) - 1)

Sides == {"front", "back"}

\* the entries of the Connected Plane combo box (lines 464-480)
Selectable == {None} \cup {Some(j) : j \in Indices}

\* Spec: the plane list of the default scene under the mutations of the UI
Init == AppNew(SceneDefault) /\ overflow_checks \in BOOLEAN

NewPlane ==
    /\ frame_no < MaxFrames
    /\ Len(scene.planes) < MaxPlanes
    /\ Update([NoInput EXCEPT !.new_plane = TRUE])

SelectPortal ==
    /\ frame_no < MaxFrames
    /\ \E index \in Indices, side \in Sides, value \in Selectable :
           Update([NoInput EXCEPT
                     !.select = Some([index |-> index, side |-> side, value |-> value])])

DeletePlanes ==
    /\ frame_no < MaxFrames
    /\ \E to_delete \in (SUBSET Indices) \ {{}} :
           Update([NoInput EXCEPT !.to_delete = to_delete])

Next == NewPlane \/ SelectPortal \/ DeletePlanes

Spec == Init /\ [][Next]_vars

(***************************************************************************)
(* The plane list under deletion (main.rs 511-529).                        *)
(***************************************************************************)
\* the planes the last frame started from
BeforePlanes == before.scene.planes

BeforeIndices == 0..(Len(BeforePlanes) - 1)

\* the index a surviving plane has once the plane at k is removed
SurvivorIndex(i, k) == IF i > k THEN i - 1 ELSE i

\* the last frame ran to its end with Delete pressed on the plane at k alone
DeletedOne(k) ==
    /\ frame_no > 0
    /\ ~panicked
    /\ input = [NoInput EXCEPT !.to_delete = {k}]
    /\ InBounds(BeforePlanes, k)

\* C1: when the plane at index k is deleted, every connection (front or back)
\* of a remaining plane whose other_index was k is None afterwards
C1_DeletionClearsReferences ==
    \A k \in BeforeIndices : DeletedOne(k) =>
        \A i \in BeforeIndices \ {k} : \A side \in Sides :
            Portal(At(BeforePlanes, i), side).other_index = Some(k)
                => Portal(At(scene.planes, SurvivorIndex(i, k)), side).other_index = None

\* C2: when the plane at index k is deleted, every connection of a remaining
\* plane whose other_index was j > k is j - 1 afterwards, whatever the index of
\* the plane that owns it
C2_DeletionShiftsReferences ==
    \A k \in BeforeIndices : DeletedOne(k) =>
        \A i \in BeforeIndices \ {k} : \A side \in Sides :
            LET o == Portal(At(BeforePlanes, i), side).other_index
            IN  (IsSome(o) /\ Unwrap(o) > k)
                    => Portal(At(scene.planes, SurvivorIndex(i, k)), side).other_index
                           = Some(Unwrap(o) - 1)

PlaneAt(position, front, back) ==
    [PlaneDefault EXCEPT !.position = position,
                         !.front_portal = PortalConnection(front),
                         !.back_portal = PortalConnection(back)]

\* a scene as storage holds it (lines 166-170): the camera position and the planes
StoredScene(camera_position, planes) ==
    [SceneDefault EXCEPT !.camera.position = camera_position, !.planes = planes]

\* the position v of the far plane of a portal pair
PortalOffset == Vec(2 * One, One, 0)

\* A at the origin and B at v, each one's front leading to the other
PairPlanes ==
    << PlaneAt(ZERO, Some(1), None), PlaneAt(PortalOffset, Some(0), None) >>

\* A at the origin, B at v, and C a quarter unit under A; A and C lead to B
StackPlanes ==
    << PlaneAt(ZERO, Some(1), None), PlaneAt(PortalOffset, None, None),
       PlaneAt(Vec(0, -(One \div 4), 0), Some(1), None) >>

\* A alone, its front leading to an index that names no plane
DanglingPlanes == << PlaneAt(ZERO, Some(1), None) >>

\* half a unit above A
Above == Vec(0, One \div 2, 0)

\* 1/One above A: nearer than the 0.0001 that Vector3::normalised requires
JustAbove == Vec(0, 1, 0)

HopScenes ==
    { StoredScene(Above, PairPlanes), StoredScene(JustAbove, PairPlanes),
      StoredScene(Above, StackPlanes), StoredScene(Above, DanglingPlanes) }

HopFrames == 3

\* the keys held during a frame, and the frame times: 1/One s and half a second
HopKeys == { {"Q"}, {"E"}, {"Q", "D"} }

HopTimes == {1, One \div 2}

InitHop == \E sc \in HopScenes : AppNew(sc) /\ overflow_checks \in BOOLEAN

Move ==
    /\ frame_no < HopFrames
    /\ \E keys \in HopKeys, shift \in BOOLEAN, dt \in HopTimes :
           Update([NoInput EXCEPT !.keys = keys, !.shift = shift, !.dt = dt])

\* ArrowUp held for two seconds: half a turn at the default rotation_speed
Turn ==
    /\ frame_no < HopFrames
    /\ Update([NoInput EXCEPT !.keys = {"ArrowUp"}, !.dt = 2 * One])

NextHop == Move \/ Turn

SpecHop == InitHop /\ [][NextHop]_vars

\* the camera as Camera::update left it in the last frame
UpdatedCamera ==
    CameraUpdate(before.scene.camera, [keys |-> input.keys, shift |-> input.shift],
                 before.ts).camera

\* the displacement of the last frame
Displacement == VSub(UpdatedCamera.position, before.scene.camera.position)

\* the last frame ran its input phase
InputPhaseRan == frame_no > 0 /\ ~input.wants_keyboard_input

\* the closest hit of the last frame's ray, as lines 560-583 compute it
LastClosestHit ==
    ClosestHit(BeforePlanes, Ray(before.scene.camera.position, normalised(Displacement)))

\* the connection lines 589-609 select on the hit plane: None, or Some(index)
SelectedConnection ==
    LET plane == At(BeforePlanes, Unwrap(LastClosestHit)[1])
        hit == Unwrap(LastClosestHit)[2]
    IN  IF IsSome(plane.front_portal.other_index) /\ hit.front
        THEN plane.front_portal.other_index
        ELSE IF IsSome(plane.back_portal.other_index) /\ ~hit.front
             THEN plane.back_portal.other_index
             ELSE None

\* the last frame's camera crossed a plane whose selected connection names no plane
DanglingCrossing ==
    /\ InputPhaseRan
    /\ IsSome(LastClosestHit)
    /\ Unwrap(LastClosestHit)[2].distance < magnitude(Displacement)
    /\ IsSome(SelectedConnection)
    /\ ~InBounds(BeforePlanes, Unwrap(SelectedConnection))

\* C4: a connection that names no plane counts as no connection at the crossing:
\* the frame ends without a panic and the traversal leaves the camera as
\* Camera::update left it
C4_DanglingIsNoConnection ==
    DanglingCrossing => (~panicked /\ scene.camera = UpdatedCamera)

ZeroRotations(plane) ==
    plane.xy_rotation = 0 /\ plane.yz_rotation = 0 /\ plane.xz_rotation = 0

\* the scene of C8: A at the origin and B elsewhere, both unrotated, A's front
\* leading to B
TranslatedPair ==
    /\ Len(BeforePlanes) = 2
    /\ At(BeforePlanes, 0).position = ZERO
    /\ ZeroRotations(At(BeforePlanes, 0))
    /\ ZeroRotations(At(BeforePlanes, 1))
    /\ At(BeforePlanes, 0).front_portal.other_index = Some(1)

\* point p lies over the rectangle of the unrotated plane at the origin
OverRectangle(p, plane) ==
    Abs(p.x) * 2 <= plane.width /\ Abs(p.z) * 2 <= plane.height

\* the last frame moved the camera from above A to below A inside A's rectangle,
\* and not across the level of B
CrossedDownThroughA ==
    /\ InputPhaseRan
    /\ ~panicked
    /\ TranslatedPair
    /\ before.scene.camera.position.y > 0
    /\ UpdatedCamera.position.y < 0
    /\ OverRectangle(before.scene.camera.position, At(BeforePlanes, 0))
    /\ OverRectangle(UpdatedCamera.position, At(BeforePlanes, 0))
    /\ (before.scene.camera.position.y > At(BeforePlanes, 1).position.y)
           = (UpdatedCamera.position.y > At(BeforePlanes, 1).position.y)
    /\ before.scene.camera.position.y # At(BeforePlanes, 1).position.y
    /\ UpdatedCamera.position.y # At(BeforePlanes, 1).position.y

\* the camera is where it moved to plus v, its rotation as Camera::update left it
TeleportedByOffset ==
    /\ scene.camera.position
           = VAdd(UpdatedCamera.position, At(BeforePlanes, 1).position)
    /\ scene.camera.rotation = UpdatedCamera.rotation

\* C8 as stated: every frame that moves the camera from above A to below A inside
\* A's rectangle ends with the camera at the moved-to position plus v, rotation
\* unchanged
C8_EveryCrossingTeleports == CrossedDownThroughA => TeleportedByOffset

\* the ray of the last frame is one Plane::intersect accepts on an unrotated plane:
\* the displacement is longer than 0.0001 and the y of its unit direction is at
\* least 0.001 in absolute value
RayAccepted == Abs(normalised(Displacement).y) * 1000 >= DirOne

\* C8 amended: a frame that moves the camera from above A to below A inside A's
\* rectangle, by a displacement longer than 0.0001 whose unit direction has
\* |y| >= 0.001, ends with the camera at the moved-to position plus v, rotation
\* unchanged
C8_AcceptedCrossingTeleports ==
    (CrossedDownThroughA /\ RayAccepted) => TeleportedByOffset

\* a frame took the camera from (0, 0.5, 0) through A to (0, -0.5, 0) + v
C8_Teleported ==
    /\ CrossedDownThroughA
    /\ RayAccepted
    /\ before.scene.camera.position = Above
    /\ UpdatedCamera.position = Vec(0, -(One \div 2), 0)
    /\ scene.camera.position = Vec(2 * One, One \div 2, 0)
    /\ hops = 1

\* the cameras one hop can give: from any plane to any plane
OneHopCameras ==
    { ApplyHop(UpdatedCamera, At(BeforePlanes, i), At(BeforePlanes, j)) :
          i \in BeforeIndices, j \in BeforeIndices }

\* C10: a frame teleports the camera at most once: it applies at most one hop, and
\* the camera it ends with is the one Camera::update left, or that one through a
\* single hop
C10_AtMostOneHop ==
    /\ hops <= 1
    /\ (InputPhaseRan /\ ~panicked)
           => scene.camera \in ({UpdatedCamera} \cup OneHopCameras)

\* a frame whose displacement crosses A and then C, both connected, hopped once:
\* the camera is the moved-to position plus v
C10_CrossedTwoHoppedOnce ==
    /\ InputPhaseRan
    /\ BeforePlanes = StackPlanes
    /\ before.scene.camera.position = Above
    /\ UpdatedCamera.position.y < -(One \div 4)
    /\ OverRectangle(UpdatedCamera.position, At(BeforePlanes, 2))
    /\ hops = 1
    /\ scene.camera.position = VAdd(UpdatedCamera.position, PortalOffset)

(***************************************************************************)
(* SpecClosest: scenes in which the nearest plane is not the connected one. *)
(***************************************************************************)
\* half a unit below A
Below == Vec(0, -(One \div 2), 0)

\* A at the origin, connected on its back only, and B at v
OtherSidePlanes ==
    << PlaneAt(ZERO, None, Some(1)), PlaneAt(PortalOffset, None, None) >>

\* A at the origin without connections, B at v, and C a quarter unit under A
\* leading to B
ShadowedPlanes ==
    << PlaneAt(ZERO, None, None), PlaneAt(PortalOffset, None, None),
       PlaneAt(Vec(0, -(One \div 4), 0), Some(1), None) >>

\* two planes at the origin, the second one connected, and B at v
TiePlanes ==
    << PlaneAt(ZERO, None, None), PlaneAt(ZERO, Some(2), None),
       PlaneAt(PortalOffset, None, None) >>

\* two planes at the origin, the first one connected, and B at v
TieFirstPlanes ==
    << PlaneAt(ZERO, Some(2), None), PlaneAt(ZERO, None, None),
       PlaneAt(PortalOffset, None, None) >>

ClosestScenes ==
    HopScenes \cup
    { StoredScene(Above, OtherSidePlanes), StoredScene(Below, OtherSidePlanes),
      StoredScene(Above, ShadowedPlanes), StoredScene(Above, TiePlanes),
      StoredScene(Above, TieFirstPlanes) }

InitClosest == \E sc \in ClosestScenes : AppNew(sc) /\ overflow_checks \in BOOLEAN

SpecClosest == InitClosest /\ [][NextHop]_vars

\* the ray of the last frame (lines 560-563)
LastRay == Ray(before.scene.camera.position, normalised(Displacement))

\* the hit of the last frame's ray on plane i
HitOf(i) == intersect(At(BeforePlanes, i), LastRay)

\* plane i has the hit of the smallest distance, and the lowest index among the
\* planes of that distance
Nearest(i) ==
    /\ IsSome(HitOf(i))
    /\ \A j \in BeforeIndices :
           IsSome(HitOf(j)) =>
               \/ Unwrap(HitOf(j)).distance > Unwrap(HitOf(i)).distance
               \/ Unwrap(HitOf(j)).distance = Unwrap(HitOf(i)).distance /\ j >= i

\* the other_index of the side of plane i that the ray hits
SideConnection(i) ==
    IF Unwrap(HitOf(i)).front THEN At(BeforePlanes, i).front_portal.other_index
    ELSE At(BeforePlanes, i).back_portal.other_index

\* the last frame hopped through plane i
HoppedThrough(i) ==
    /\ Nearest(i)
    /\ Unwrap(HitOf(i)).distance < magnitude(Displacement)
    /\ IsSome(SideConnection(i))
    /\ InBounds(BeforePlanes, Unwrap(SideConnection(i)))
    /\ scene.camera = ApplyHop(UpdatedCamera, At(BeforePlanes, i),
                               At(BeforePlanes, Unwrap(SideConnection(i))))

\* C11: a frame applies a hop only through the plane of the smallest hit distance
\* (the lowest index among equals), only when that distance is less than the
\* length of the displacement, and through the connection of the side that was
\* hit; when that side has no connection the frame applies no hop, whatever the
\* plane's other side or a farther plane is connected to
C11_HopThroughNearestOnly ==
    /\ hops > 0 => (InputPhaseRan /\ \E i \in BeforeIndices : HoppedThrough(i))
    /\ (InputPhaseRan /\ ~panicked) =>
           \A i \in BeforeIndices :
               (Nearest(i) /\ ~IsSome(SideConnection(i))) =>
                   (hops = 0 /\ scene.camera = UpdatedCamera)

\* a frame crossed the unconnected A and the connected C under it, and applied no
\* hop
C11_FartherPortalIgnored ==
    /\ InputPhaseRan
    /\ BeforePlanes = ShadowedPlanes
    /\ before.scene.camera.position = Above
    /\ Nearest(0)
    /\ IsSome(HitOf(2))
    /\ Unwrap(HitOf(2)).distance < magnitude(Displacement)
    /\ hops = 0
    /\ scene.camera = UpdatedCamera

(***************************************************************************)
(* SpecAccum: the accumulation counter under every kind of input a frame   *)
(* can bring.                                                              *)
(***************************************************************************)
\* a stored scene with a portal pair under the camera, whose rotor is not unit
PortalScene ==
    [StoredScene(Above, PairPlanes) EXCEPT !.camera.rotation = Rotor(2, 0, 0, 0)]

AccumScenes == {SceneDefault, PortalScene}

\* the scene a picked file holds
FileScene == StoredScene(Above, StackPlanes)

AccumFrames == 3

Edit(field, value) == [field |-> field, value |-> value]

SettingsEdits ==
    { Edit("render_type", "Lit"), Edit("antialiasing", FALSE),
      Edit("recursive_portal_count", 2), Edit("max_bounces", 2 * 2) }

\* speed is the one that reports no change (camera.rs 20-57)
CameraEdits ==
    { Edit("position", Vec(0, 2 * One, 0)), Edit("speed", 2 * 2),
      Edit("up_sky_color", <<1, 1, 1>>), Edit("sun_size", 2 * 10) }

PlaneEdit(index, field, value) == [index |-> index, field |-> field, value |-> value]

\* edits of the first plane; the name is the one that reports no change
PlaneEdits ==
    { PlaneEdit(0, "name", "Floor"), PlaneEdit(0, "position", Vec(0, -One, 0)),
      PlaneEdit(0, "width", 2 * One),
      PlaneEdit(0, "checker_count_x", 2), PlaneEdit(0, "color", <<0, 1, 0>>),
      PlaneEdit(0, "emission_intensity", 1) }

InitAccum == \E sc \in AccumScenes : AppNew(sc) /\ overflow_checks \in BOOLEAN

Steady ==
    /\ frame_no < AccumFrames
    /\ Update([NoInput EXCEPT !.dt = One \div 2])

PressReset ==
    /\ frame_no < AccumFrames
    /\ Update([NoInput EXCEPT !.reset_everything = TRUE, !.dt = One \div 2])

EditSettings ==
    /\ frame_no < AccumFrames
    /\ render_settings.render_settings_window_open
    /\ \E e \in SettingsEdits :
           Update([NoInput EXCEPT !.settings_edit = Some(e), !.dt = One \div 2])

PressClear ==
    /\ frame_no < AccumFrames
    /\ render_settings.render_settings_window_open
    /\ Update([NoInput EXCEPT !.clear = TRUE, !.dt = One \div 2])

EditCamera ==
    /\ frame_no < AccumFrames
    /\ render_settings.camera_window_open
    /\ \E e \in CameraEdits :
           Update([NoInput EXCEPT !.camera_edit = Some(e), !.dt = One \div 2])

AddPlane ==
    /\ frame_no < AccumFrames
    /\ render_settings.planes_window_open
    /\ Len(scene.planes) < MaxPlanes
    /\ Update([NoInput EXCEPT !.new_plane = TRUE, !.dt = One \div 2])

EditPlane ==
    /\ frame_no < AccumFrames
    /\ render_settings.planes_window_open
    /\ \E e \in PlaneEdits :
           /\ InBounds(scene.planes, e.index)
           /\ Update([NoInput EXCEPT !.plane_edit = Some(e), !.dt = One \div 2])

ConnectPortal ==
    /\ frame_no < AccumFrames
    /\ render_settings.planes_window_open
    /\ \E side \in Sides :
           /\ InBounds(scene.planes, 0)
           /\ Update([NoInput EXCEPT
                       !.select = Some([index |-> 0, side |-> side, value |-> Some(0)]),
                       !.dt = One \div 2])

DeleteFirst ==
    /\ frame_no < AccumFrames
    /\ render_settings.planes_window_open
    /\ InBounds(scene.planes, 0)
    /\ Update([NoInput EXCEPT !.to_delete = {0}, !.dt = One \div 2])

ClickLoad ==
    /\ frame_no < AccumFrames
    /\ Update([NoInput EXCEPT !.load_clicked = TRUE, !.dt = One \div 2])

\* the file dialog hands over a path: the file holds FileScene, or cannot be read
PickFile ==
    /\ frame_no < AccumFrames
    /\ file_interaction # "None"
    /\ \E file_scene \in {None, Some(FileScene)} :
           Update([NoInput EXCEPT !.picked = TRUE, !.file_scene = file_scene,
                                 !.dt = One \div 2])

\* keys held for half a second, with or without a text field having the focus
HoldKeys ==
    /\ frame_no < AccumFrames
    /\ \E keys \in { {"Q"}, {"W", "S"} }, wants_keyboard_input \in BOOLEAN :
           Update([NoInput EXCEPT !.keys = keys,
                                  !.wants_keyboard_input = wants_keyboard_input,
                                  !.dt = One \div 2])

NextAccum ==
    \/ Steady
    \/ PressReset
    \/ EditSettings
    \/ PressClear
    \/ EditCamera
    \/ AddPlane
    \/ EditPlane
    \/ ConnectPortal
    \/ DeleteFirst
    \/ ClickLoad
    \/ PickFile
    \/ HoldKeys

SpecAccum == InitAccum /\ [][NextAccum]_vars

\* the accumulated_frames a paint callback carries
Submitted(d) == Unwrap(d).accumulated_frames

\* C5: a frame that detects no change and in which Clear is not pressed submits
\* an accumulated_frames one more than the frame before submitted
C5_SteadyFrameAccumulates ==
    (/\ IsSome(dispatch)
     /\ IsSome(prev_dispatch)
     /\ ~rendering_changed
     /\ ~input.clear)
        => Submitted(dispatch) = Submitted(prev_dispatch) + 1

\* a third frame in a row without a change submits 2
C5_ThirdSteadyFrame ==
    /\ IsSome(dispatch)
    /\ IsSome(prev_dispatch)
    /\ ~rendering_changed
    /\ ~input.clear
    /\ Submitted(prev_dispatch) = 1
    /\ Submitted(dispatch) = 2

\* the kinds of change of the last frame, read from its input and the state it
\* started from
ResetHappened == input.reset_everything

SettingsEdited ==
    /\ before.render_settings.render_settings_window_open
    /\ IsSome(input.settings_edit)
    /\ Unwrap(input.settings_edit).field \in RenderingFields
    /\ before.render_settings[Unwrap(input.settings_edit).field]
           # Unwrap(input.settings_edit).value

CameraEdited ==
    /\ before.render_settings.camera_window_open
    /\ IsSome(input.camera_edit)
    /\ \/ /\ Unwrap(input.camera_edit).field = "position"
          /\ before.scene.camera.position # Unwrap(input.camera_edit).value
       \/ /\ Unwrap(input.camera_edit).field \in SkyFields
          /\ before.scene[Unwrap(input.camera_edit).field]
                 # Unwrap(input.camera_edit).value

PlaneAdded == before.render_settings.planes_window_open /\ input.new_plane

PlaneChanged ==
    /\ before.render_settings.planes_window_open
    /\ IsSome(input.plane_edit)
    /\ InBounds(BeforePlanes, Unwrap(input.plane_edit).index)
    /\ Unwrap(input.plane_edit).field # "name"
    /\ At(BeforePlanes, Unwrap(input.plane_edit).index)[Unwrap(input.plane_edit).field]
           # Unwrap(input.plane_edit).value

PortalConnected ==
    /\ before.render_settings.planes_window_open
    /\ IsSome(input.select)
    /\ InBounds(BeforePlanes, Unwrap(input.select).index)
    /\ Portal(At(BeforePlanes, Unwrap(input.select).index),
              Unwrap(input.select).side).other_index # Unwrap(input.select).value

PlaneDeleted ==
    /\ before.render_settings.planes_window_open
    /\ \E k \in input.to_delete : InBounds(BeforePlanes, k)

FileLoaded ==
    input.picked /\ before.file_interaction = "Load" /\ IsSome(input.file_scene)

KeyActive == ~input.wants_keyboard_input /\ input.keys \cap KeySet # {}

Renormalised ==
    /\ ~input.wants_keyboard_input
    /\ ~ResetHappened
    /\ ~FileLoaded
    /\ Abs(rotor_magnitude(before.scene.camera.rotation) - DirOne) * 1000 > DirOne

Hopped == hops > 0

ChangeHappened ==
    \/ ResetHappened
    \/ SettingsEdited
    \/ CameraEdited
    \/ PlaneAdded
    \/ PlaneChanged
    \/ PortalConnected
    \/ PlaneDeleted
    \/ FileLoaded
    \/ KeyActive
    \/ Renormalised
    \/ Hopped

\* C6: a frame with a reset, an edit of a rendering setting, of the camera position
\* or of a sky or sun parameter, a New Plane, an edit of a plane or of a portal
\* connection, a Delete, a successful load, an active key, a re-normalisation of
\* the rotor or a hop submits accumulated_frames 0
C6_ChangeRestartsAccumulation ==
    (frame_no > 0 /\ IsSome(dispatch) /\ ChangeHappened) => Submitted(dispatch) = 0

\* a hop in a frame that follows a frame which had accumulated
C6_HopAfterAccumulation ==
    /\ frame_no > 0
    /\ IsSome(dispatch)
    /\ IsSome(prev_dispatch)
    /\ Hopped
    /\ Submitted(prev_dispatch) > 0
    /\ Submitted(dispatch) = 0

\* the last frame ran to its end with Clear pressed and nothing else: no other
\* input, no change detected, and the Camera window had no sun_size to clamp
ClearAlone ==
    /\ frame_no > 0
    /\ IsSome(dispatch)
    /\ before.render_settings.render_settings_window_open
    /\ input = [NoInput EXCEPT !.clear = TRUE, !.dt = input.dt]
    /\ ~rendering_changed
    /\ before.scene.sun_size = Clamp(before.scene.sun_size, 0, PI)

\* the last frame ran to its end with no input and no change detected
SteadyAlone ==
    /\ frame_no > 0
    /\ IsSome(dispatch)
    /\ input = [NoInput EXCEPT !.dt = input.dt]
    /\ ~rendering_changed

\* C7: a frame with Clear pressed and no other change submits accumulated_frames
\* 0 and leaves the scene and the render settings as they were, and a steady frame
\* right after it submits 1
C7_ClearRestartsAccumulation ==
    [][ /\ ClearAlone' => /\ Submitted(dispatch') = 0
                          /\ scene' = scene
                          /\ render_settings' = render_settings
        /\ (ClearAlone /\ SteadyAlone') => Submitted(dispatch') = 1 ]_vars

\* Clear pressed alone in a frame that follows a frame which had accumulated
C7_ClearAfterAccumulation ==
    /\ ClearAlone
    /\ IsSome(prev_dispatch)
    /\ Submitted(prev_dispatch) > 0
    /\ Submitted(dispatch) = 0

\* the last frame as its windows left it, before the input phase (lines 197-552)
AfterWindows ==
    FileDialog(
      PlanesWindow(
        CameraWindow(
          RenderSettingsWindow(
            InfoWindow(
              TopBar(Locals(before.scene, before.render_settings,
                            before.accumulated_frames, before.file_interaction,
                            input.rect),
                     input),
              input),
            input),
          input),
        input, overflow_checks),
      input)

\* the last frame ran while a text field had the focus
FocusedFrame == frame_no > 0 /\ input.wants_keyboard_input /\ ~panicked

\* the only input of the last frame was its key state
KeysAlone ==
    input = [NoInput EXCEPT !.keys = input.keys, !.shift = input.shift,
                            !.wants_keyboard_input = input.wants_keyboard_input,
                            !.dt = input.dt]

\* C16: in a frame in which the UI wants the keyboard input, the input phase
\* leaves the camera as the windows left it and applies no hop, and the key state
\* alone reports no change: the frame submits one more than the frame before
C16_FocusSuspendsKeys ==
    FocusedFrame =>
        /\ scene.camera = AfterWindows.scene.camera
        /\ hops = 0
        /\ rendering_changed = AfterWindows.rendering_changed
        /\ (KeysAlone /\ before.scene.sun_size = Clamp(before.scene.sun_size, 0, PI)) =>
               /\ scene = before.scene
               /\ ~rendering_changed
               /\ IsSome(prev_dispatch) =>
                      Submitted(dispatch) = Submitted(prev_dispatch) + 1

\* Q held over a portal while a text field has the focus: without the focus the
\* frame would have hopped; with it the camera stays and the frame accumulates
C16_FocusedOverPortal ==
    /\ FocusedFrame
    /\ KeysAlone
    /\ input.keys = {"Q"}
    /\ Traverse(BeforePlanes, UpdatedCamera, before.scene.camera.position,
                UpdatedCamera.position).hops = 1
    /\ hops = 0
    /\ scene.camera = before.scene.camera
    /\ IsSome(prev_dispatch)
    /\ Submitted(dispatch) = Submitted(prev_dispatch) + 1

(***************************************************************************)
(* SpecRoundTrip: the hop of lines 592-598 applied there and back between  *)
(* two planes whose transforms are translations and unit rotors.           *)
(***************************************************************************)
\* a plane at `position` turned by whole half turns
PlacedPlane(position, xy_rotation, yz_rotation, xz_rotation, other_index) ==
    [PlaneDefault EXCEPT !.position = position,
                         !.xy_rotation = xy_rotation,
                         !.yz_rotation = yz_rotation,
                         !.xz_rotation = xz_rotation,
                         !.front_portal = PortalConnection(Some(other_index))]

HalfTurnCounts == {0, 1}

NearPositions == {ZERO, Vec(One, 0, -One)}

FarPositions == {PortalOffset, Vec(-One, One \div 2, One)}

CameraPositions == {Above, Vec(One \div 4, -(One \div 4), One \div 8)}

\* unit rotors
CameraRotations == {ROTOR_IDENTITY, rotation_xy(1), rotation_yz(1), rotation_xz(3)}

RoundTripScenes ==
    { [StoredScene(camera_position,
                   << PlacedPlane(a, axy, ayz, 0, 1), PlacedPlane(b, bxy, 0, bxz, 0) >>)
          EXCEPT !.camera.rotation = camera_rotation] :
        camera_position \in CameraPositions, camera_rotation \in CameraRotations,
        a \in NearPositions, axy \in HalfTurnCounts, ayz \in HalfTurnCounts,
        b \in FarPositions, bxy \in HalfTurnCounts, bxz \in HalfTurnCounts }

MaxRoundTrips == 2

InitRoundTrip == \E sc \in RoundTripScenes : AppNew(sc) /\ overflow_checks = FALSE

\* the camera goes through A's portal to B
HopThere ==
    /\ hops < 2 * MaxRoundTrips
    /\ hops % 2 = 0
    /\ scene' = [scene EXCEPT
                   !.camera = ApplyHop(@, At(scene.planes, 0), At(scene.planes, 1))]
    /\ hops' = hops + 1
    /\ UNCHANGED <<render_settings, accumulated_frames, file_interaction, last_time,
                   overflow_checks, panicked, input, before, rendering_changed,
                   dispatch, prev_dispatch, frame_no, call, result, renderer>>

\* the camera goes through B's portal back to A
HopBack ==
    /\ hops % 2 = 1
    /\ scene' = [scene EXCEPT
                   !.camera = ApplyHop(@, At(scene.planes, 1), At(scene.planes, 0))]
    /\ hops' = hops + 1
    /\ UNCHANGED <<render_settings, accumulated_frames, file_interaction, last_time,
                   overflow_checks, panicked, input, before, rendering_changed,
                   dispatch, prev_dispatch, frame_no, call, result, renderer>>

NextRoundTrip == HopThere \/ HopBack

SpecRoundTrip == InitRoundTrip /\ [][NextRoundTrip]_vars

\* C9: after the hop from A to B and the hop from B back to A, any number of
\* times, camera.position and camera.rotation, hence Camera::transform(), are what
\* they were before the first hop
C9_RoundTripRestoresCamera ==
    (hops % 2 = 0)
        => /\ scene.camera = before.scene.camera
           /\ CameraTransform(scene.camera) = CameraTransform(before.scene.camera)

\* two round trips between planes that are turned and apart, with a turned camera
C9_TwoRoundTrips ==
    /\ hops = 2 * 2
    /\ At(scene.planes, 0).yz_rotation = 1
    /\ At(scene.planes, 1).xz_rotation = 1
    /\ At(scene.planes, 1).position = PortalOffset
    /\ scene.camera.rotation = rotation_xy(1)
    /\ scene.camera = before.scene.camera
(***************************************************************************)
(* SpecIntersect: Plane::intersect called on planes and rays of a grid.    *)
(***************************************************************************)
\* the variables of the App, which a call of a function leaves alone
app_vars == <<scene, render_settings, accumulated_frames, file_interaction, last_time,
              overflow_checks, panicked, input, before, rendering_changed, hops,
              dispatch, prev_dispatch, frame_no, renderer>>

\* width and height
Sizes == { <<One, One>>, <<2 * One, One>>, <<One, 2 * One>> }

\* xy_rotation, yz_rotation and xz_rotation in half turns
HalfTurnTriples == { <<0, 0, 0>>, <<1, 0, 0>>, <<0, 1, 0>>, <<0, 0, 1>> }

IntersectPlanes ==
    { At(SceneDefault.planes, 0) } \cup
    { [PlaneDefault EXCEPT !.position = p,
                           !.xy_rotation = r[1], !.yz_rotation = r[2],
                           !.xz_rotation = r[3],
                           !.width = size[1], !.height = size[2]] :
        p \in {ZERO, Vec(One, -(One \div 2), 0)}, r \in HalfTurnTriples,
        size \in Sizes }

RayOrigins ==
    { Vec(x, y, z) : x \in {-One, -(One \div 4), 0, One \div 2, One \div 2 + 1},
                     y \in {-(One \div 2), 0, 1, One},
                     z \in {-(One \div 2), 0, One} }

\* straight down and up, along x, none, two slanted ones, and one whose y is 0.001
RayDirections ==
    { Vec(0, -DirOne, 0), Vec(0, DirOne, 0), Vec(DirOne, 0, 0), ZERO,
      Vec(6 * 100, -(8 * 100), 0), Vec(0, 8 * 100, -(6 * 100)), Vec(DirOne, -1, 0) }

\* no call made yet; the App is as App::new leaves it and takes no step
InitCall == AppNew(SceneDefault) /\ overflow_checks = FALSE

CallIntersect ==
    /\ call = None
    /\ \E self \in IntersectPlanes, origin \in RayOrigins, direction \in RayDirections :
           /\ call' = Some([fn |-> "intersect", self |-> self,
                            ray |-> Ray(origin, direction)])
           /\ result' = intersect(self, Ray(origin, direction))
    /\ UNCHANGED app_vars

SpecIntersect == InitCall /\ [][CallIntersect]_vars

\* the last call, once one was made
Called == Unwrap(call)

\* C12: on a plane at the origin with zero rotations, a ray from (x, d, z) with
\* d > 0, |x| <= width / 2 and |z| <= height / 2 along (0, -1, 0) is a hit at
\* distance d, front, at position (x, 0, z) with normal (0, 1, 0)
C12_StraightDownHits ==
    ( /\ IsSome(call)
      /\ Called.self.position = ZERO
      /\ ZeroRotations(Called.self)
      /\ Called.ray.direction = Vec(0, -DirOne, 0)
      /\ Called.ray.origin.y > 0
      /\ OverRectangle(Called.ray.origin, Called.self) )
    => result = Some([distance |-> Called.ray.origin.y,
                      position |-> Vec(Called.ray.origin.x, 0, Called.ray.origin.z),
                      normal |-> Vec(0, DirOne, 0),
                      front |-> TRUE])

\* the ray from (0, 1, 0) along -Y hit the default ground plane at distance 1
C12_GroundHitAtOne ==
    /\ IsSome(call)
    /\ Called.self = At(SceneDefault.planes, 0)
    /\ Called.ray = Ray(Vec(0, One, 0), Vec(0, -DirOne, 0))
    /\ IsSome(result)
    /\ Unwrap(result).distance = One
    /\ Unwrap(result).front

\* the origin and the direction of the called ray in the plane's own frame
LocalOrigin ==
    transform_point(reverse(PlaneTransform(Called.self)), Called.ray.origin)

LocalDirection ==
    RotorRotate(rotor_part(reverse(PlaneTransform(Called.self))), Called.ray.direction)

\* the ray runs along the plane: |local direction y| < 0.001
Grazing == Abs(LocalDirection.y) * 1000 < DirOne

\* the ray is not grazing and f32::signum tells its origin and its direction apart
Towards == ~Grazing /\ Signum(LocalOrigin.y) # Signum(LocalDirection.y)

\* where the ray meets the plane's local y = 0
LocalPoint ==
    VAdd(LocalOrigin,
         Vec(MulDir(Abs(Div(LocalOrigin.y * DirOne, LocalDirection.y)), LocalDirection.x),
             MulDir(Abs(Div(LocalOrigin.y * DirOne, LocalDirection.y)), LocalDirection.y),
             MulDir(Abs(Div(LocalOrigin.y * DirOne, LocalDirection.y)), LocalDirection.z)))

\* C13: a ray towards the plane that meets local y = 0 at |x| > width / 2 or
\* |z| > height / 2 returns None, and one that meets it inside the rectangle or
\* on its boundary returns a hit
C13_HitWithinRectangle ==
    (IsSome(call) /\ Towards) =>
        (IsSome(result) <=> OverRectangle(LocalPoint, Called.self))

\* a slanted ray met a plane exactly on the boundary x = width / 2 and was a hit
C13_BoundaryHit ==
    /\ IsSome(call)
    /\ Towards
    /\ Called.ray.direction.x # 0
    /\ Abs(LocalPoint.x) * 2 = Called.self.width
    /\ IsSome(result)

\* C14: a ray whose local direction has |y| < 0.001, the zero direction included,
\* or whose local origin y and local direction y are both positive or both
\* negative, returns None
C14_GrazingOrAwayMisses ==
    ( /\ IsSome(call)
      /\ \/ Grazing
         \/ LocalOrigin.y > 0 /\ LocalDirection.y > 0
         \/ LocalOrigin.y < 0 /\ LocalDirection.y < 0 )
    => result = None

\* a ray over the rectangle of a rotated plane, pointing away from it, returned
\* None
C14_AwayOverRectangle ==
    /\ IsSome(call)
    /\ ~ZeroRotations(Called.self)
    /\ ~Grazing
    /\ LocalOrigin.y < 0 /\ LocalDirection.y < 0
    /\ OverRectangle(LocalOrigin, Called.self)
    /\ LocalDirection.x = 0 /\ LocalDirection.z = 0
    /\ result = None

(***************************************************************************)
(* SpecCamera: Camera::update called with every set of keys.               *)
(***************************************************************************)
\* the default camera, and one whose rotor is twice a unit rotor
UpdateCameras ==
    { SceneDefault.camera,
      [SceneDefault.camera EXCEPT !.rotation = Rotor(0, 0, 2, 0)] }

\* the first frame, and a frame of two seconds
UpdateTimes == {0, 2 * One}

CallUpdate ==
    /\ call = None
    /\ \E self \in UpdateCameras, keys \in SUBSET KeySet, shift \in BOOLEAN,
          ts \in UpdateTimes :
           /\ call' = Some([fn |-> "update", self |-> self,
                            i |-> [keys |-> keys, shift |-> shift], ts |-> ts])
           /\ result' = CameraUpdate(self, [keys |-> keys, shift |-> shift], ts)
    /\ UNCHANGED app_vars

SpecCamera == InitCall /\ [][CallUpdate]_vars

\* the rotor the call started from is further than 0.001 from unit magnitude; the
\* turns of the arrow keys are unit rotors and keep the magnitude
OffUnit == Abs(rotor_magnitude(Called.self.rotation) - DirOne) * 1000 > DirOne

\* C15: Camera::update returns true exactly when one of the ten keys is down or
\* the rotor was re-normalised, which changes its magnitude and happens exactly
\* when it was off unit; the shift modifier does not count
C15_ChangedIffKeyOrRenormalised ==
    IsSome(call) =>
        /\ result.changed <=> (Called.i.keys # {} \/ OffUnit)
        /\ OffUnit <=> rotor_magnitude(result.camera.rotation)
                           # rotor_magnitude(Called.self.rotation)

\* W and S held together for two seconds: the camera is where it was, and the
\* call returned true
C15_OpposingKeysCancel ==
    /\ IsSome(call)
    /\ Called.i.keys = {"W", "S"}
    /\ Called.ts > 0
    /\ ~OffUnit
    /\ result.camera = Called.self
    /\ result.changed

(***************************************************************************)
(* SpecTransform: transforms composed from translations and unit rotors,   *)
(* and the products of rotors, rotations and translations of points.       *)
(***************************************************************************)
MaxCompositions == 3

Offsets == { Vec(One, 0, 0), Vec(0, -(One \div 2), One), Vec(3, 2 * One, -1) }

\* the translations by Offsets and the turns by half a turn about each axis
Parts ==
    { translation(v) : v \in Offsets } \cup
    { from_rotor(r) : r \in {rotation_xy(1), rotation_yz(1), rotation_xz(1),
                             rotation_xy(3)} }

\* rotors of any magnitude
Rotors == { Rotor(s, e12, e13, e23) : s \in {-1, 0, 2}, e12 \in {-1, 0, 2},
                                      e13 \in {-1, 0, 2}, e23 \in {-1, 0, 2} }

Points == Offsets \cup { ZERO, Vec(-One, One, One \div 4) }

\* the transform composed so far
Built == IF IsSome(call) THEN result ELSE IDENTITY

\* fewer than MaxCompositions parts are composed, and no other call was made
Composing ==
    IF call = None THEN TRUE
    ELSE Called.fn = "compose" /\ Called.count < MaxCompositions

Composed == Some([fn |-> "compose",
                  count |-> IF IsSome(call) THEN Called.count + 1 ELSE 1])

ComposeThen ==
    /\ Composing
    /\ \E part \in Parts : result' = then(Built, part)
    /\ call' = Composed
    /\ UNCHANGED app_vars

ComposeAfter ==
    /\ Composing
    /\ \E part \in Parts : result' = after(Built, part)
    /\ call' = Composed
    /\ UNCHANGED app_vars

ComposeRotors ==
    /\ call = None
    /\ \E r \in Rotors, s \in Rotors :
           /\ call' = Some([fn |-> "from_rotor.then", r |-> r, s |-> s])
           /\ result' = [transforms |-> then(from_rotor(r), from_rotor(s)),
                         rotors |-> RotorThen(r, s)]
    /\ UNCHANGED app_vars

RotatePoint ==
    /\ call = None
    /\ \E r \in Rotors, p \in Points :
           /\ call' = Some([fn |-> "transform_point", r |-> r, p |-> p])
           /\ result' = [transformed |-> transform_point(from_rotor(r), p),
                         rotated |-> RotorRotate(r, p)]
    /\ UNCHANGED app_vars

TranslatePoint ==
    /\ call = None
    /\ \E u \in Offsets, v \in Offsets, p \in Points :
           /\ call' = Some([fn |-> "translation", u |-> u, v |-> v, p |-> p])
           /\ result' = [twice |-> transform_point(then(translation(u), translation(v)), p),
                         once |-> transform_point(translation(v), p)]
    /\ UNCHANGED app_vars

NextTransform ==
    \/ ComposeThen
    \/ ComposeAfter
    \/ ComposeRotors
    \/ RotatePoint
    \/ TranslatePoint

SpecTransform == InitCall /\ [][NextTransform]_vars

\* C17: a transform T composed from translations and unit rotors with then and
\* after has T.then(T.reverse()) and T.reverse().then(T) equal to IDENTITY in all
\* eight coefficients
C17_ReverseIsInverse ==
    (IsSome(call) /\ Called.fn = "compose") =>
        /\ then(result, reverse(result)) = IDENTITY
        /\ then(reverse(result), result) = IDENTITY

\* three parts composed into a transform that both turns and translates
C17_TurnedAndTranslated ==
    /\ IsSome(call)
    /\ Called.fn = "compose"
    /\ Called.count = MaxCompositions
    /\ rotor_part(result) # ROTOR_IDENTITY
    /\ <<result.e01, result.e02, result.e03>> # <<0, 0, 0>>
    /\ result.e0123 # 0
    /\ then(result, reverse(result)) = IDENTITY

\* C18: for rotors R and S of any magnitude, from_rotor(R).then(from_rotor(S)) is
\* from_rotor(R.then(S)): the rotor coefficients are those of the Rotor product and
\* e01, e02, e03 and e0123 are 0
C18_FromRotorKeepsProducts ==
    (IsSome(call) /\ Called.fn = "from_rotor.then") =>
        /\ result.transforms = from_rotor(result.rotors)
        /\ rotor_part(result.transforms) = result.rotors
        /\ <<result.transforms.e01, result.transforms.e02, result.transforms.e03,
             result.transforms.e0123>> = <<0, 0, 0, 0>>

\* two rotors that do not commute and are not unit were multiplied
C18_NonUnitProduct ==
    /\ IsSome(call)
    /\ Called.fn = "from_rotor.then"
    /\ Called.r = Rotor(2, -1, 0, 2)
    /\ Called.s = Rotor(0, 2, -1, -1)
    /\ result.rotors # RotorThen(Called.s, Called.r)
    /\ result.transforms = from_rotor(result.rotors)

\* C19: for every rotor R and point p, from_rotor(R).transform_point(p) equals
\* R.rotate(p) in every component
C19_TransformPointRotates ==
    (IsSome(call) /\ Called.fn = "transform_point") =>
        result.transformed = result.rotated

\* a point off the axes was turned by a rotor with all four coefficients
C19_RotatedOffAxis ==
    /\ IsSome(call)
    /\ Called.fn = "transform_point"
    /\ Called.r = Rotor(2, -1, 2, -1)
    /\ Called.p = Vec(-One, One, One \div 4)
    /\ result.rotated # Called.p
    /\ result.transformed = result.rotated

\* C20: translation(u).then(translation(v)).transform_point(p) equals p + u + v
\* and translation(v).transform_point(p) equals p + v
C20_TranslationsAdd ==
    (IsSome(call) /\ Called.fn = "translation") =>
        /\ result.twice = VAdd(VAdd(Called.p, Called.u), Called.v)
        /\ result.once = VAdd(Called.p, Called.v)

\* two different offsets, one with odd components, moved a point
C20_TwoOffsets ==
    /\ IsSome(call)
    /\ Called.fn = "translation"
    /\ Called.u = Vec(One, 0, 0)
    /\ Called.v = Vec(3, 2 * One, -1)
    /\ Called.p = Vec(-One, One, One \div 4)
    /\ result.twice = Vec(3, 3 * One, One \div 4 - 1)
    /\ result.once = Vec(3 - One, 3 * One, One \div 4 - 1)

(***************************************************************************)
(* SpecGpu: Plane::to_gpu called on planes with every kind of connection.  *)
(***************************************************************************)
\* no connection, small indices, and the indices around u32::MAX and usize::MAX
HostIndices ==
    { None, Some(0), Some(1), Some(2), Some(U32Max - 1), Some(U32Max),
      Some(U32Max + 1), Some(UsizeMax) }

CallToGpu ==
    /\ call = None
    /\ \E front \in HostIndices, back \in HostIndices, position \in Offsets :
           /\ call' = Some([fn |-> "to_gpu", self |-> PlaneAt(position, front, back)])
           /\ result' = to_gpu(PlaneAt(position, front, back))
    /\ UNCHANGED app_vars

SpecGpu == InitCall /\ [][CallToGpu]_vars

\* the device connection encodes the host connection: u32::MAX for None and k for
\* Some(k)
Encodes(device, host) ==
    IF IsSome(host.other_index) THEN device.other_index = Unwrap(host.other_index)
    ELSE device.other_index = U32Max

\* the host index is absent or below u32::MAX
BelowU32Max(host) == IsSome(host.other_index) => Unwrap(host.other_index) < U32Max

\* C21: Plane::to_gpu encodes front_portal and back_portal each on its own side,
\* as u32::MAX for None and as k for Some(k); for k below u32::MAX the device
\* other_index is u32::MAX exactly when the host connection is None
C21_ConnectionsEncoded ==
    IsSome(call) =>
        /\ BelowU32Max(Called.self.front_portal) =>
               /\ Encodes(result.front_portal, Called.self.front_portal)
               /\ result.front_portal.other_index = U32Max
                      <=> ~IsSome(Called.self.front_portal.other_index)
        /\ BelowU32Max(Called.self.back_portal) =>
               /\ Encodes(result.back_portal, Called.self.back_portal)
               /\ result.back_portal.other_index = U32Max
                      <=> ~IsSome(Called.self.back_portal.other_index)

\* a plane without a front connection and with its back leading to plane 1
C21_BackOnly ==
    /\ IsSome(call)
    /\ Called.self.front_portal.other_index = None
    /\ Called.self.back_portal.other_index = Some(1)
    /\ result.front_portal.other_index = U32Max
    /\ result.back_portal.other_index = 1

\* ---------------------------------------------------------------------------
\* a Load whose file cannot be read or parsed (main.rs 532-552)

\* the last frame confirmed a Load and the file gave no scene
FailedLoad ==
    /\ frame_no > 0
    /\ input.picked
    /\ before.file_interaction = "Load"
    /\ input.file_scene = None

\* C22: a confirmed Load whose file cannot be read or parsed leaves the scene as
\* it was, signals no change (the frame submits the accumulated_frames it started
\* with and counts one more), raises no error and returns the file interaction
\* to None
C22_FailedLoadChangesNothing ==
    FailedLoad =>
        /\ ~panicked
        /\ scene = before.scene
        /\ ~rendering_changed
        /\ file_interaction = "None"
        /\ Submitted(dispatch) = before.accumulated_frames
        /\ accumulated_frames = before.accumulated_frames + 1

\* a failed Load after a frame has accumulated, in a scene that is not the default
C22_FailedLoadAfterAccumulation ==
    /\ FailedLoad
    /\ before.accumulated_frames > 0
    /\ before.scene # SceneDefault
    /\ Submitted(dispatch) = before.accumulated_frames

\* ---------------------------------------------------------------------------
\* frames submitted to the renderer: the sun, the panel's size and the planes

RenderFrames == 4

\* a scene as a file or the storage may hold it: serde takes any sun_size
SunnyScene == [StoredScene(Above, StackPlanes) EXCEPT !.sun_size = 2 * PI]

\* the sizes of the central panel, one of them without width
Rects == { [width |-> 32, height |-> 16], [width |-> 16, height |-> 16],
           [width |-> 0, height |-> 16] }

\* App::new with the scene of the storage, if it holds one
InitRender ==
    \E sc \in {SceneDefault, SunnyScene} : AppNew(sc) /\ overflow_checks = FALSE

\* a frame without input, the central panel as large as in the frame before
SameSize == [NoInput EXCEPT !.rect = input.rect, !.dt = One \div 2]

RenderSteady ==
    /\ frame_no < RenderFrames
    /\ Update(SameSize)

\* the window is resized
Resize ==
    /\ frame_no < RenderFrames
    /\ \E rect \in Rects \ {input.rect} :
           Update([SameSize EXCEPT !.rect = rect])

\* the Camera window is closed, or opened from the top bar
ToggleCamera ==
    /\ frame_no < RenderFrames
    /\ IF render_settings.camera_window_open
       THEN Update([SameSize EXCEPT !.window_closed = {"Camera"}])
       ELSE Update([SameSize EXCEPT !.window_buttons = {"Camera"}])

\* the sun's angular radius is dragged
DragSun ==
    /\ frame_no < RenderFrames
    /\ render_settings.camera_window_open
    /\ \E value \in {-PI, 2 * PI} :
           Update([SameSize EXCEPT !.camera_edit = Some(Edit("sun_size", value))])

RenderReset ==
    /\ frame_no < RenderFrames
    /\ Update([SameSize EXCEPT !.reset_everything = TRUE])

RenderClickLoad ==
    /\ frame_no < RenderFrames
    /\ file_interaction = "None"
    /\ Update([SameSize EXCEPT !.load_clicked = TRUE])

RenderPickFile ==
    /\ frame_no < RenderFrames
    /\ file_interaction = "Load"
    /\ Update([SameSize EXCEPT !.picked = TRUE, !.file_scene = Some(SunnyScene)])

RenderNewPlane ==
    /\ frame_no < RenderFrames
    /\ Len(scene.planes) < MaxPlanes
    /\ Update([SameSize EXCEPT !.new_plane = TRUE])

\* the last plane is deleted
RenderDelete ==
    /\ frame_no < RenderFrames
    /\ Len(scene.planes) > 0
    /\ Update([SameSize EXCEPT !.to_delete = {Len(scene.planes) - 1}])

NextRender ==
    \/ RenderSteady
    \/ Resize
    \/ ToggleCamera
    \/ DragSun
    \/ RenderReset
    \/ RenderClickLoad
    \/ RenderPickFile
    \/ RenderNewPlane
    \/ RenderDelete

SpecRender == InitRender /\ [][NextRender]_vars

\* C23: the sun_size of every paint callback lies in [0, PI]
C23_SunSizeInRange ==
    IsSome(dispatch) =>
        /\ Unwrap(dispatch).camera.sun_size >= 0
        /\ Unwrap(dispatch).camera.sun_size <= PI

\* the last frame reached the renderer
Prepared == frame_no > 0 /\ IsSome(dispatch)

\* prepare replaced the accumulation texture in the last frame
Replaced == renderer.ray_tracing_texture.id # before.renderer.ray_tracing_texture.id

\* the samples in the texture the last dispatch wrote, before it wrote
Blended == IF Replaced THEN 0 ELSE before.renderer.ray_tracing_texture.samples

\* C26: the accumulated_frames a frame submits is 0, which overwrites, or the
\* number of samples already blended into the accumulation texture its dispatch
\* writes, and it is 0 in every frame whose prepare replaces the texture
C26_SubmittedCountsBlended ==
    Prepared =>
        /\ Submitted(dispatch) = 0 \/ Submitted(dispatch) = Blended
        /\ Replaced => Submitted(dispatch) = 0

\* the planes buffer was replaced in the last frame
Reallocated == renderer.planes_buffer.id # before.renderer.planes_buffer.id

\* C29: the planes buffer is at least as large as what a frame writes into it, it
\* is replaced only by a larger one and only where the planes do not fit, and the
\* objects bind group refers to the planes buffer after every frame, being
\* recreated in the frames that replace the buffer and in no other
C29_PlanesBufferGrowsOnly ==
    /\ renderer.written <= renderer.planes_buffer.size
    /\ renderer.planes_buffer.size >= before.renderer.planes_buffer.size
    /\ Reallocated =>
           /\ Prepared
           /\ PlanesSize(Unwrap(dispatch)) > before.renderer.planes_buffer.size
           /\ renderer.planes_buffer.size = PlanesSize(Unwrap(dispatch))
    /\ renderer.objects_bind_group = renderer.planes_buffer.id
    /\ Reallocated <=> renderer.objects_bind_group # before.renderer.objects_bind_group
    /\ Prepared => renderer.written = PlanesSize(Unwrap(dispatch))

\* a frame with fewer planes than the buffer holds follows one that replaced the
\* buffer: the buffer and the bind group stay
C29_ShrunkAfterGrowth ==
    /\ Prepared
    /\ ~Reallocated
    /\ renderer.planes_buffer.size > GpuPlaneSize
    /\ renderer.written < renderer.planes_buffer.size
    /\ renderer.objects_bind_group = renderer.planes_buffer.id

\* ---------------------------------------------------------------------------
\* deletion, side by side and below the deleted index (main.rs 511-529)

\* C24: when the plane at index k is deleted, a remaining plane whose back
\* pointed at k has back None afterwards, and its front, where it pointed at a
\* plane that stays, is not cleared
C24_BackClearedFrontKept ==
    \A k \in BeforeIndices : DeletedOne(k) =>
        \A i \in BeforeIndices \ {k} :
            LET plane == At(BeforePlanes, i)
                after_plane == At(scene.planes, SurvivorIndex(i, k))
            IN  plane.back_portal.other_index = Some(k) =>
                    /\ after_plane.back_portal.other_index = None
                    /\ (/\ IsSome(plane.front_portal.other_index)
                        /\ plane.front_portal.other_index # Some(k))
                           => IsSome(after_plane.front_portal.other_index)

\* the last frame had Delete pressed on the plane at k alone
DeletePressed(k) ==
    /\ frame_no > 0
    /\ input = [NoInput EXCEPT !.to_delete = {k}]
    /\ InBounds(BeforePlanes, k)

\* C25: when the plane at index k is deleted, the frame does not panic and every
\* connection of a remaining plane whose other_index was j < k is j afterwards,
\* whatever the index of the plane that owns it
C25_LowerReferencesStay ==
    \A k \in BeforeIndices : DeletePressed(k) =>
        /\ ~panicked
        /\ \A i \in BeforeIndices \ {k} : \A side \in Sides :
               LET o == Portal(At(BeforePlanes, i), side).other_index
               IN  (IsSome(o) /\ Unwrap(o) < k)
                       => Portal(At(scene.planes, SurvivorIndex(i, k)), side).other_index = o

\* ---------------------------------------------------------------------------
\* the hop between two planes as a map of points (main.rs 593, plane.rs 60-66)

\* planes at the origin and away from it, unturned and turned
MapPlanes ==
    { [PlaneDefault EXCEPT !.position = p, !.xy_rotation = r[1],
                           !.yz_rotation = r[2], !.xz_rotation = r[3]] :
        p \in {ZERO} \cup Offsets, r \in HalfTurnTriples }

\* the point with local coordinates q on the source plane is taken through the hop
\* to the target plane
CallHop ==
    /\ call = None
    /\ \E source \in MapPlanes, target \in MapPlanes, q \in Points :
           /\ call' = Some([fn |-> "hop", source |-> source, target |-> target, q |-> q])
           /\ result' = transform_point(HopTransform(source, target),
                                        transform_point(PlaneTransform(source), q))
    /\ UNCHANGED app_vars

SpecPortalMap == InitCall /\ [][CallHop]_vars

\* C27: the hop from plane S to plane K maps the world point with local
\* coordinates q on S to the world point with the same local coordinates on K, so
\* S.position to K.position, and a plane's transform maps the local origin to the
\* plane's position
C27_HopMapsLocalPoints ==
    IsSome(call) =>
        /\ result = transform_point(PlaneTransform(Called.target), Called.q)
        /\ Called.q = ZERO => result = Called.target.position
        /\ transform_point(PlaneTransform(Called.source), ZERO) = Called.source.position

\* a point off the origin through a hop between two turned planes apart
C27_TurnedApart ==
    /\ IsSome(call)
    /\ Called.q # ZERO
    /\ Called.source.position # Called.target.position
    /\ Called.source.position # ZERO
    /\ Called.source.xy_rotation = 1
    /\ Called.target.yz_rotation = 1
    /\ result = transform_point(PlaneTransform(Called.target), Called.q)

\* ---------------------------------------------------------------------------
\* frames that do not move the camera (main.rs 554-612)

\* the camera on a connected plane, at its middle and on its edge, on the plane
\* it is connected to, below it and above it, and with a rotor off unit length
StillScenes ==
    { StoredScene(p, PairPlanes) :
        p \in {ZERO, Vec(One \div 2, 0, 0), PortalOffset, Below, Above} }
    \cup { StoredScene(Vec(0, -(One \div 4), 0), StackPlanes),
           [StoredScene(ZERO, PairPlanes) EXCEPT !.camera.rotation = Rotor(2, 0, 0, 0)] }

InitStill == \E sc \in StillScenes : AppNew(sc) /\ overflow_checks \in BOOLEAN

\* no key is held
Idle ==
    /\ frame_no < HopFrames
    /\ \E dt \in HopTimes : Update([NoInput EXCEPT !.dt = dt])

\* two keys that cancel are held
Cancel ==
    /\ frame_no < HopFrames
    /\ \E keys \in { {"W", "S"}, {"Q", "E"}, {"A", "D", "ArrowLeft"} }, dt \in HopTimes :
           Update([NoInput EXCEPT !.keys = keys, !.dt = dt])

\* movement keys are held in a frame that takes no time
ZeroTime ==
    /\ frame_no < HopFrames
    /\ \E keys \in HopKeys : Update([NoInput EXCEPT !.keys = keys, !.dt = 0])

NextStill == Idle \/ Cancel \/ ZeroTime \/ Turn \/ Move

SpecStill == InitStill /\ [][NextStill]_vars

\* the last frame ran its input phase and Camera::update left the position alone
StillFrame ==
    /\ InputPhaseRan
    /\ UpdatedCamera.position = before.scene.camera.position

\* C28: a frame in which Camera::update leaves the camera's position unchanged
\* applies no hop, and the camera is as Camera::update left it, whatever the
\* planes and their connections
C28_StillCameraNoHop ==
    StillFrame =>
        /\ ~panicked
        /\ hops = 0
        /\ scene.camera = UpdatedCamera

\* cancelling keys held for a while with the camera on a connected plane, after
\* a frame that moved it there or left it there
C28_StillOnPortal ==
    /\ StillFrame
    /\ frame_no > 1
    /\ before.ts > 0
    /\ input.keys = {"Q", "E"}
    /\ \E i \in BeforeIndices :
           /\ IsSome(At(BeforePlanes, i).front_portal.other_index)
           /\ At(BeforePlanes, i).position = before.scene.camera.position
    /\ hops = 0

\* ---------------------------------------------------------------------------
\* the normal of a hit (plane.rs 80-86)

\* the rotation of the called plane
CalledRotor == rotor_part(PlaneTransform(Called.self))

\* the plane's local Y axis in the world, towards the side the ray came from
FacingNormal ==
    RotorRotate(CalledRotor,
                Vec(0, IF Unwrap(result).front THEN DirOne ELSE -DirOne, 0))

\* the same call with the plane and the ray's origin moved so that the plane is
\* at the world's origin
AtOrigin ==
    intersect([Called.self EXCEPT !.position = ZERO],
              Ray(VSub(Called.ray.origin, Called.self.position), Called.ray.direction))

\* C30: the normal of every hit is the plane's local Y axis under the plane's
\* rotation, towards the side the ray came from, and is the normal of the hit
\* with the plane and the ray's origin moved by the same offset
C30_NormalFacesRay ==
    (IsSome(call) /\ IsSome(result)) =>
        /\ Unwrap(result).normal = FacingNormal
        /\ IsSome(AtOrigin) /\ Unwrap(AtOrigin).normal = Unwrap(result).normal

====
